---------------------------- MODULE Spec2Model ----------------------------
(***************************************************************************)
(* nix-bonito: the channel locking and transactional-apply engine.         *)
(*                                                                         *)
(* A channel name and a URL are sequences of string tokens, so that        *)
(* prefixing (e.prefix + name), prefix tests (strings.HasPrefix) and       *)
(* path.Base are computed on them.  Go maps are functions with a finite    *)
(* domain; a range over a Go map visits its keys in any order.             *)
(***************************************************************************)
EXTENDS Naturals, Sequences, FiniteSets, TLC

VARIABLES
    cfg,        \* bonito.Config: Global, Flakes, Users
    lock,       \* State.Lock.Channels : ChannelInput -> ChannelLock
    chans,      \* the identity's nix-channel list : name -> url
    defexpr,    \* ~/.nix-defexpr/channels/<name> : name -> store path
    refs,       \* the remote's references : version -> commit
    served,     \* what the mutable URL serves now : its store hash
    pc,         \* position in the running operation
    mode,       \* applyGlobal's update flag
    oldList,    \* applyUser: the snapshot list() returned
    chInputs,   \* applyUser: channelInputs; resolveChannelLocks: channelInputs
    todo,       \* keys the current range loop has not visited yet
    names,      \* applyUser: names; resolveChannelLocks: channelNames
    inputURLs,  \* applyGlobal: inputURLs
    locks,      \* applyGlobal: locks returned by resolveChannelLocks
    calls,      \* every nix-channel invocation issued by the running operation
    err,        \* the error the operation returned ("" while none)
    hist,       \* bookkeeping of the run, read by the properties only
    ctxOpts,    \* executil.Opts carried by the context
    envUser,    \* what executil.CurrentUser returns
    execs,      \* every executil.Exec call made: its inputs and what it did
    files,      \* the files of the config directory : path -> content
    run,        \* cmdRun: its flags, the steps that succeeded, writeToFile's locals
    fcall,      \* a call of a function of the package: its arguments and results
    ctxDone,    \* whether the caller's context has been cancelled
    user,       \* the identity whose namespace chans and defexpr are
    apply       \* State.Apply: its phase, the users left, the other namespaces

vars == <<cfg, lock, chans, defexpr, refs, served, pc, mode, oldList, chInputs,
          todo, names, inputURLs, locks, calls, err, hist,
          ctxOpts, envUser, execs, files, run, fcall, ctxDone, user, apply>>

---------------------------------------------------------------------------
(* Go maps *)

EmptyMap == [k \in {} |-> 0]

MapPut(m, k, v) == [x \in (DOMAIN m) \cup {k} |-> IF x = k THEN v ELSE m[x]]

MapDel(m, k) == [x \in (DOMAIN m) \ {k} |-> m[x]]

\* m2's entries written over m1's
MapMerge(m1, m2) ==
    [x \in (DOMAIN m1) \cup (DOMAIN m2) |-> IF x \in DOMAIN m2 THEN m2[x] ELSE m1[x]]

HasPrefix(s, p) == Len(s) >= Len(p) /\ SubSeq(s, 1, Len(p)) = p

---------------------------------------------------------------------------
(* gitutil.RefCommit and resolveGit, on Go strings *)

\* s[i:i+1] of a Go string
CharAt(s, i) == SubSeq(s, i, i)

\* strings.HasSuffix
HasSuffix(s, p) == Len(s) >= Len(p) /\ SubSeq(s, Len(s) - Len(p) + 1, Len(s)) = p

\* strings.Index for a one-character separator, counted from 1; 0 if absent
StrIndex(s, c) ==
    IF \E i \in 1..Len(s) : CharAt(s, i) = c
    THEN CHOOSE i \in 1..Len(s) :
             CharAt(s, i) = c /\ \A j \in 1..(i - 1) : CharAt(s, j) # c
    ELSE 0

\* strings.Split(s, c)
RECURSIVE StrSplit(_, _)
StrSplit(s, c) ==
    LET i == StrIndex(s, c)
    IN  IF i = 0 THEN <<s>>
        ELSE <<SubSeq(s, 1, i - 1)>> \o StrSplit(SubSeq(s, i + 1, Len(s)), c)

\* strings.Join(parts, c)
RECURSIVE StrJoin(_, _)
StrJoin(parts, c) ==
    IF parts = <<>> THEN ""
    ELSE IF Len(parts) = 1 THEN parts[1]
    ELSE parts[1] \o c \o StrJoin(Tail(parts), c)

\* path.Base of a path without trailing slashes
StrPathBase(p) == LET parts == StrSplit(p, "/") IN parts[Len(parts)]

HexDigits == {"0", "1", "2", "3", "4", "5", "6", "7", "8", "9",
              "a", "b", "c", "d", "e", "f", "A", "B", "C", "D", "E", "F"}

\* isValidCommitHash: 4 to 40 characters, hex up to the last even position
isValidCommitHash(hash) ==
    /\ Len(hash) >= 4
    /\ Len(hash) <= 40
    /\ \A i \in 1..(Len(hash) - (Len(hash) % 2)) : CharAt(hash, i) \in HexDigits

\* A line of git's output is <<commit, ref>>, or <<text>> when it holds no tab.
\* splitLsRemote: lines without a tab and tags that are not dereferenced
\* are skipped
RECURSIVE splitLsRemote(_)
splitLsRemote(lines) ==
    IF lines = <<>> THEN <<>>
    ELSE LET line == Head(lines)
             rest == splitLsRemote(Tail(lines))
         IN  IF Len(line) < 2 THEN rest
             ELSE IF HasPrefix(line[2], "refs/tags/") /\ ~HasSuffix(line[2], "^{}")
                  THEN rest
             ELSE <<[commit |-> line[1], ref |-> line[2]]>> \o rest

\* the references whose name starts with matchRef, in their order
RECURSIVE RefsWithPrefix(_, _)
RefsWithPrefix(rs, matchRef) ==
    IF rs = <<>> THEN <<>>
    ELSE IF HasPrefix(Head(rs).ref, matchRef)
         THEN <<Head(rs)>> \o RefsWithPrefix(Tail(rs), matchRef)
    ELSE RefsWithPrefix(Tail(rs), matchRef)

\* the lines whose reference matches a pattern ending in *
RECURSIVE LinesMatching(_, _)
LinesMatching(lines, pattern) ==
    IF lines = <<>> THEN <<>>
    ELSE IF HasPrefix(Head(lines)[2], SubSeq(pattern, 1, Len(pattern) - 1))
         THEN <<Head(lines)>> \o LinesMatching(Tail(lines), pattern)
    ELSE LinesMatching(Tail(lines), pattern)

\* What `git ls-remote --sort=v:refname remote [pattern]` prints for a remote
\* whose version-sorted listing is `listing`: all of it when no pattern is
\* given, and the text ends with a newline
LsRemote(listing, pattern) ==
    (IF pattern = "" THEN listing ELSE LinesMatching(listing, pattern)) \o <<<<"">>>>

\* gitutil.RefCommit(ctx, remote, ref) against a remote with that listing;
\* runOk is whether executil.Exec succeeded, queried whether it was called
RefCommit(listing, ref, runOk) ==
    IF Len(ref) = 40 /\ isValidCommitHash(ref)
    THEN [ok |-> TRUE, commit |-> ref, err |-> "", queried |-> FALSE]
    ELSE LET glob     == HasSuffix(ref, "*")
             ref2     == IF glob /\ ~HasPrefix(ref, "refs/")
                         THEN "refs/heads/" \o ref ELSE ref
             pattern  == IF glob THEN ref2 ELSE ""
             all      == splitLsRemote(LsRemote(listing, pattern))
             matchRef == SubSeq(ref2, 1, Len(ref2) - 1)
             found    == IF glob THEN RefsWithPrefix(all, matchRef) ELSE all
         IN  IF ~runOk
             THEN [ok |-> FALSE, commit |-> "", err |-> "exec", queried |-> TRUE]
             ELSE IF found = <<>>
                  THEN IF isValidCommitHash(ref2)
                       THEN [ok |-> TRUE, commit |-> ref2, err |-> "",
                             queried |-> TRUE]
                       ELSE [ok |-> FALSE, commit |-> "", err |-> "ref not found",
                             queried |-> TRUE]
             ELSE [ok |-> TRUE, commit |-> found[Len(found)].commit, err |-> "",
                   queried |-> TRUE]

\* url.Parse of scheme:rest : an opaque rest has no leading slash, //host/path
\* has an authority
UrlParse(s) ==
    LET i    == StrIndex(s, ":")
        rest == SubSeq(s, i + 1, Len(s))
        auth == SubSeq(rest, 3, Len(rest))
        j    == StrIndex(auth, "/")
    IN  IF i = 0 THEN [Scheme |-> "", Opaque |-> "", Host |-> "", Path |-> s]
        ELSE IF ~HasPrefix(rest, "/")
             THEN [Scheme |-> SubSeq(s, 1, i - 1), Opaque |-> rest, Host |-> "",
                   Path |-> ""]
        ELSE IF HasPrefix(rest, "//")
             THEN [Scheme |-> SubSeq(s, 1, i - 1), Opaque |-> "",
                   Host |-> IF j = 0 THEN auth ELSE SubSeq(auth, 1, j - 1),
                   Path |-> IF j = 0 THEN "" ELSE SubSeq(auth, j, Len(auth))]
        ELSE [Scheme |-> SubSeq(s, 1, i - 1), Opaque |-> "", Host |-> "",
              Path |-> rest]

\* URL.String of a URL with a scheme and no opaque part
UrlString(u) ==
    u.Scheme \o ":"
    \o (IF u.Host # "" \/ u.Path # "" THEN "//" ELSE "")
    \o u.Host
    \o (IF u.Path # "" /\ CharAt(u.Path, 1) # "/" /\ u.Host # "" THEN "/" ELSE "")
    \o u.Path

\* the host resolveGit's first switch picks for a scheme
GitHosts == [github |-> "github.com", gitlab |-> "gitlab.com",
             gitsrht |-> "git.sr.ht", gitea |-> "gitea.com"]

NoRefCommit == [ok |-> FALSE, commit |-> "", err |-> "", queried |-> FALSE]

GitFailed(e, rc) == [ok |-> FALSE, url |-> "", err |-> e, rc |-> rc]

\* resolveGit(ctx, in) against a remote with that listing
resolveGit(in, listing, runOk) ==
    LET u0    == UrlParse(in.URL)
        host  == IF u0.Scheme = "git" THEN u0.Host ELSE GitHosts[u0.Scheme]
        parts == StrSplit(u0.Opaque, "/")
        \* case 3 sets u.Host = parts[0]; line 77 then sets u.Host = host
        u1    == IF u0.Opaque = "" THEN u0
                 ELSE [u0 EXCEPT !.Path = StrJoin(IF Len(parts) = 3 THEN Tail(parts)
                                                  ELSE parts, "/"),
                                 !.Host = host,
                                 !.Opaque = ""]
        u     == [u1 EXCEPT !.Scheme = "https"]
        rc    == RefCommit(listing, in.Version, runOk)
        ver   == IF rc.commit # "" THEN rc.commit ELSE in.Version
        arch  == IF host = "gitlab.com"
                 THEN "/-/archive/" \o ver \o "/" \o StrPathBase(u.Path) \o "-"
                      \o ver \o ".tar.gz"
                 ELSE "/archive/" \o ver \o ".tar.gz"
    IN  IF StrIndex(in.URL, " ") # 0
        THEN GitFailed("url contains invalid space", NoRefCommit)
        ELSE IF u0.Scheme \notin {"git"} \cup DOMAIN GitHosts
             THEN GitFailed("unknown git service", NoRefCommit)
        ELSE IF u0.Opaque # "" /\ Len(parts) \notin {2, 3}
             THEN GitFailed("invalid opaque", NoRefCommit)
        ELSE IF ~rc.ok THEN GitFailed("cannot get version", rc)
        ELSE IF host \notin {"github.com", "gitlab.com", "git.sr.ht", "gitea.com"}
             THEN GitFailed("unknown git service", rc)
        ELSE [ok |-> TRUE, url |-> UrlString([u EXCEPT !.Path = u.Path \o arch]),
              err |-> "", rc |-> rc]

---------------------------------------------------------------------------
(* Channel inputs, URLs and the resolver *)

InA == [URL |-> <<"github:", "o", "r">>, Version |-> "main"]
InB == [URL |-> <<"github:", "o", "r">>, Version |-> "master"]
InC == [URL |-> <<"https:", "x", "c">>, Version |-> ""]

Inputs == {InA, InB, InC}

Commits == {"c1", "c2"}

Hashes == {"h1", "h2", "h3", "h4"}

\* path.Base of a URL: its last path segment
PathBase(u) == u[Len(u)]

\* resolveGit for a github shorthand, after RefCommit gave `commit`
GitHubArchive(in, commit) ==
    <<"https:", "github.com">> \o Tail(in.URL) \o <<"archive", commit \o ".tar.gz">>

Scheme(in) == Head(in.URL)

\* ChannelInput.Resolve: http(s) is used as is, a git service input becomes
\* the archive URL of the commit RefCommit gives for its version
\* the remote's listing, sorted by reference name
RemoteListing(rf) ==
    <<<<rf["main"], "refs/heads/main">>, <<rf["master"], "refs/heads/master">>>>

Resolve(in, rf) ==
    IF Scheme(in) \in {"https:", "http:"} THEN in.URL
    ELSE GitHubArchive(in, RefCommit(RemoteListing(rf), in.Version, TRUE).commit)

\* What nix-channel --update unpacks for a URL: a commit archive is fixed by
\* its commit, the plain URL serves whatever it serves now
StoreHashOf(url, sv) ==
    IF url = GitHubArchive(InA, "c1") THEN "h1"
    ELSE IF url = GitHubArchive(InA, "c2") THEN "h2"
    ELSE sv

ChannelLock(url, hash) == [URL |-> url, StoreHash |-> hash]

---------------------------------------------------------------------------
(* channelExecer *)

TmpPrefix == <<"bonito-tmp-">>

\* a temporary execer that got no prefix
ExecerPrefixNone(temp) == <<>>

\* newChannelExecer: the prefix of a temporary / normal execer
ExecerPrefix(temp) == IF temp THEN TmpPrefix ELSE <<>>

\* channelExecer.add / remove: the name handed to nix-channel
ExecerName(temp, name) == ExecerPrefix(temp) \o name

\* channelExecer.list: every line of nix-channel --list, whatever the execer
List(temp, ch) == ch

\* nix-channel --add url name
ToolAdd(ch, name, url) == MapPut(ch, name, url)

\* nix-channel --remove name
ToolRemove(ch, name) == MapDel(ch, name)

\* the profile after nix-channel --remove name
ToolUninstall(dx, name) == MapDel(dx, name)

StoreDir == "/nix/store"

\* where nix-channel --update links a channel: <store>/<hash>-<name>/<name>
StorePathOf(hash, name) == <<StoreDir, hash, "-", name, "/", name>>

\* ParseStorePath: the hash of the first segment under the store directory
ParseStorePath(path) ==
    IF Len(path) >= 4 /\ path[1] = StoreDir /\ path[3] = "-" /\ path[2] \in Hashes
    THEN [ok |-> TRUE, Hash |-> path[2], Name |-> path[4]]
    ELSE [ok |-> FALSE, Hash |-> "", Name |-> ""]

\* nix-channel --update [names...]: no names means every channel. The named
\* channels are fetched and linked, the others keep their link
ToolUpdate(ch, dx, args, sv) ==
    LET hit == IF args = <<>> THEN DOMAIN ch
               ELSE {args[i] : i \in 1..Len(args)} \cap DOMAIN ch
    IN  [n \in ((DOMAIN dx) \cap (DOMAIN ch)) \cup hit |->
            IF n \in hit THEN StorePathOf(StoreHashOf(ch[n], sv), n) ELSE dx[n]]

Call(op, arg, ok) == [op |-> op, arg |-> arg, ok |-> ok]

\* "removes" stands for the --remove calls of one removeAll
Mutating == {"add", "remove", "removes", "update"}

\* the channel names an invocation names
CallNames(c) ==
    IF c.op = "update" THEN {c.arg[i] : i \in 1..Len(c.arg)}
    ELSE IF c.op = "removes" THEN c.arg
    ELSE {c.arg}

IssuedMutation == \E i \in 1..Len(calls) : calls[i].op \in Mutating

---------------------------------------------------------------------------
(* Config *)

Registry(ch, al) == [Channels |-> ch, Aliases |-> al]

\* what CombineChannelRegistries returns: a channel map, or the alias error
Combined(m) == [ok |-> TRUE, m |-> m]

ErrAlias == [ok |-> FALSE, m |-> EmptyMap]

RECURSIVE ResolveAliases(_, _, _)
\* the alias loop of CombineChannelRegistries over the aliases not visited
\* yet: every map the iteration order can produce, or the alias error
ResolveAliases(ci, al, rest) ==
    IF rest = {} THEN {Combined(ci)}
    ELSE UNION { IF al[n] \in DOMAIN ci
                 THEN ResolveAliases(MapPut(ci, n, ci[al[n]]), al, rest \ {n})
                 ELSE {ErrAlias} : n \in rest }

RECURSIVE CombineFrom(_, _)
CombineFrom(ci, regs) ==
    IF regs = <<>> THEN {Combined(ci)}
    ELSE LET r == Head(regs)
         IN  UNION { IF x.ok THEN CombineFrom(x.m, Tail(regs)) ELSE {ErrAlias}
                     : x \in ResolveAliases(MapMerge(ci, r.Channels), r.Aliases,
                                            DOMAIN r.Aliases) }

\* CombineChannelRegistries: the outcomes it can return
CombineChannelRegistries(regs) == CombineFrom(EmptyMap, regs)

User == "alice"

UserCfg == cfg.Users[user]

---------------------------------------------------------------------------
(* State.applyUser *)

Na == <<"a">>
Nb == <<"b">>
Nc == <<"c">>
Ng == <<"g">>
Nx == <<"x">>
Nz == <<"z">>

UrlOld == <<"https:", "old", "a">>
UrlX == <<"https:", "old", "x">>

\* whether a nix-channel call succeeds: exec.CommandContext does not start
\* the command once the context is done, and Exec returns the error
ToolOutcomes == IF ctxDone THEN {FALSE} ELSE BOOLEAN

\* the calls the rollback closure attempts when the removes rf and the adds
\* af fail: every one, as the results of remove and add are dropped
RollbackAttempts(rf, af) ==
    [removes |-> DOMAIN UserCfg.Channels, adds |-> DOMAIN oldList]

\* the rollback closure: remove every own channel, re-add the old list; a
\* failing call is ignored. rf, af: the removes and adds that fail
Rollback(ch, rf, af) ==
    LET att     == RollbackAttempts(rf, af)
        removed == [n \in (DOMAIN ch) \ (att.removes \ rf) |-> ch[n]]
        readd   == [n \in (att.adds \ af) |-> oldList[n]]
    IN  MapMerge(removed, readd)

Returned(e) ==
    /\ pc' = "failed"
    /\ err' = e

\* the profile after the rollback closure: the removed names are uninstalled
RollbackProfile(dx, rf) ==
    [n \in (DOMAIN dx) \ ((DOMAIN UserCfg.Channels) \ rf) |-> dx[n]]

\* a failed rollback call taking the place of the error
RollbackErrorReplaced(e, failed) == IF failed THEN "cannot roll back" ELSE e

\* what applyUser returns after rollback(): the error of the failed step
RollbackError(e, failed) == e

\* the operation returns e after running the rollback closure
RolledBack(e) ==
    /\ \E rf \in SUBSET DOMAIN UserCfg.Channels, af \in SUBSET DOMAIN oldList :
          /\ (FALSE \notin ToolOutcomes) => (rf = {} /\ af = {})
          /\ (TRUE \notin ToolOutcomes) =>
                (rf = DOMAIN UserCfg.Channels /\ af = DOMAIN oldList)
          /\ chans' = Rollback(chans, rf, af)
          /\ defexpr' = RollbackProfile(defexpr, rf)
          /\ hist' = [hist EXCEPT !.rolledBack = TRUE,
                                  !.rbFailed = (rf \cup af) # {},
                                  !.rb = [att |-> RollbackAttempts(rf, af),
                                          rf |-> rf, af |-> af]]
          /\ Returned(RollbackError(e, (rf \cup af) # {}))

UFrame == UNCHANGED <<cfg, ctxDone, user, apply, lock, refs, served, mode, inputURLs, locks,
                      ctxOpts, envUser, execs, files, run, fcall>>

\* oldList, err := channels.list()
UList ==
    /\ pc = "idle"
    /\ \E ok \in ToolOutcomes :
          /\ calls' = Append(calls, Call("list", <<>>, ok))
          /\ IF ok
             THEN /\ oldList' = List(FALSE, chans)
                  /\ err' = err
                  /\ IF UserCfg.OverrideChannels
                     THEN pc' = "prune" /\ todo' = DOMAIN List(FALSE, chans)
                     ELSE pc' = "combine" /\ todo' = {}
             ELSE /\ Returned("cannot get current channels list")
                  /\ UNCHANGED <<oldList, todo>>
    /\ UNCHANGED <<chans, defexpr, chInputs, names, hist>>
    /\ UFrame

\* the override loop keeping every old entry
OverrideKeepsAll(n) == TRUE

\* the old entries the override loop leaves alone: the own channels
OverrideKeeps(n) == n \in DOMAIN UserCfg.Channels

\* one iteration of the override loop, or its end
UPrune ==
    /\ pc = "prune"
    /\ IF todo = {}
       THEN /\ pc' = "combine"
            /\ UNCHANGED <<chans, defexpr, todo, calls, err, hist>>
       ELSE \E n \in todo :
            /\ todo' = todo \ {n}
            /\ IF OverrideKeeps(n)
               THEN UNCHANGED <<chans, defexpr, pc, calls, err, hist>>
               ELSE \E ok \in ToolOutcomes :
                    /\ calls' = Append(calls, Call("remove", ExecerName(FALSE, n), ok))
                    /\ IF ok
                       THEN /\ chans' = ToolRemove(chans, ExecerName(FALSE, n))
                            /\ defexpr' = ToolUninstall(defexpr, ExecerName(FALSE, n))
                            /\ UNCHANGED <<pc, err, hist>>
                       ELSE RolledBack("cannot remove channel for overriding")
    /\ UNCHANGED <<oldList, chInputs, names>>
    /\ UFrame

\* channelInputs, err := CombineChannelRegistries(global, user)
UCombine ==
    /\ pc = "combine"
    /\ \E r \in CombineChannelRegistries(<<cfg.Global, UserCfg>>) :
          IF ~r.ok
          THEN /\ Returned("cannot get channels for user")
               /\ UNCHANGED <<chInputs, todo>>
          ELSE /\ chInputs' = r.m
               /\ todo' = DOMAIN r.m
               /\ pc' = "add"
               /\ err' = err
    /\ UNCHANGED <<chans, defexpr, oldList, names, calls, hist>>
    /\ UFrame

\* the add loop passing the declared URL of the input
AddedURLDeclared(lk, input) == input.URL

\* the URL the add loop passes to channels.add: the one of the input's lock
AddedURL(lk, input) == lk[input].URL

\* one iteration of the add loop, or its end
UAdd ==
    /\ pc = "add"
    /\ IF todo = {}
       THEN /\ pc' = "update"
            /\ UNCHANGED <<chans, defexpr, todo, names, calls, err, hist>>
       ELSE \E n \in todo :
            /\ todo' = todo \ {n}
            /\ IF chInputs[n] \notin DOMAIN lock
               THEN /\ Returned("channel has no lock")
                    /\ UNCHANGED <<chans, defexpr, names, calls, hist>>
               ELSE \E ok \in ToolOutcomes :
                    /\ calls' = Append(calls, Call("add", ExecerName(FALSE, n), ok))
                    /\ IF ok
                       THEN /\ chans' = ToolAdd(chans, ExecerName(FALSE, n),
                                                AddedURL(lock, chInputs[n]))
                            /\ names' = Append(names, n)
                            /\ UNCHANGED <<defexpr, pc, err, hist>>
                       ELSE /\ RolledBack("cannot add channel")
                            /\ names' = names
    /\ UNCHANGED <<oldList, chInputs>>
    /\ UFrame

\* the arguments of the commit's update
UpdateArgs == IF UserCfg.OverrideChannels THEN <<>> ELSE names

\* channels.update() / channels.update(names...)
UUpdate ==
    /\ pc = "update"
    /\ \E ok \in ToolOutcomes :
          /\ calls' = Append(calls, Call("update", UpdateArgs, ok))
          /\ IF ok
             THEN /\ defexpr' = ToolUpdate(chans, defexpr, UpdateArgs, served)
                  /\ pc' = "done"
                  /\ UNCHANGED <<chans, err, hist>>
             ELSE RolledBack("cannot update")
    /\ UNCHANGED <<oldList, chInputs, todo, names>>
    /\ UFrame

---------------------------------------------------------------------------
(* The configurations and states applyUser is run from *)

NoRegistry == Registry(EmptyMap, EmptyMap)

GlobalCfg(pu, ch, al) == [PreferredUser |-> pu, Channels |-> ch, Aliases |-> al]

UserConfig(sudo, override, ch, al) ==
    [UseSudo |-> sudo, OverrideChannels |-> override, Channels |-> ch, Aliases |-> al]

Config(global, flakes, users) ==
    [Global |-> global, Flakes |-> flakes, Users |-> users]

UserConfigs ==
    { Config(g, NoRegistry, (User :> UserConfig(FALSE, o, ch, al))) :
        g \in {GlobalCfg("", EmptyMap, EmptyMap), GlobalCfg("", (Ng :> InC), EmptyMap),
               GlobalCfg("", (Na :> InC), (Nc :> Na)), GlobalCfg("", EmptyMap, (Nc :> Nb))},
        o \in BOOLEAN,
        ch \in {EmptyMap, (Na :> InA), (Na :> InA) @@ (Nb :> InB)},
        al \in {EmptyMap, (Nc :> Na), (Nc :> Nz)} }

FullLock ==
    (InA :> ChannelLock(GitHubArchive(InA, "c1"), "h1"))
    @@ (InB :> ChannelLock(GitHubArchive(InB, "c2"), "h2"))
    @@ (InC :> ChannelLock(InC.URL, "h3"))

UserLocks == {FullLock, [i \in {InA, InC} |-> FullLock[i]]}

\* an entry a reconcile left in the temporary namespace
StaleTmp == TmpPrefix \o <<"stale">>

UserLists ==
    {EmptyMap, (Na :> UrlOld), (Nx :> UrlX), (Na :> UrlOld) @@ (Nx :> UrlX),
     (StaleTmp :> InC.URL), (Nx :> UrlX) @@ (StaleTmp :> InC.URL)}

\* the zero Opts, and no Exec call made
NoOpts == [UseSudo |-> FALSE, Username |-> ""]

\* State.Apply not running: no phase, no user left, no other namespace
NoApply == [phase |-> "", pending |-> {}, profiles |-> EmptyMap,
            atStart |-> EmptyMap, atLoop |-> EmptyMap, globalErr |-> "",
            applied |-> EmptyMap, failed |-> ""]

\* one operation called for the one user, with a live context
OneCall == ctxDone = FALSE /\ user = User /\ apply = NoApply

NoExec == ctxOpts = NoOpts /\ envUser = "alice" /\ execs = <<>> /\ OneCall

\* a path with no file, and cmdRun not running
Absent == [exists |-> FALSE, data |-> EmptyMap, written |-> 0]

NoRun == [update |-> "", flakes |-> FALSE, lockAtStart |-> Absent, okSteps |-> {},
          dst |-> "", tmp |-> "", new |-> Absent, prev |-> Absent, after |-> "",
          werr |-> ""]

NoFiles ==
    /\ files = [p \in {"lock", "registry", "tmp"} |-> Absent]
    /\ run = NoRun
    /\ fcall = <<>>

NoHist ==
    [rolledBack |-> FALSE, rbFailed |-> FALSE, run |-> 0, cleaned |-> FALSE,
     resolved |-> {}, lockAtStart |-> EmptyMap, liveAtStart |-> EmptyMap,
     staleAtStart |-> {}, added |-> EmptyMap,
     rb |-> [att |-> [removes |-> {}, adds |-> {}], rf |-> {}, af |-> {}]]

Init ==
    /\ cfg \in UserConfigs
    /\ lock \in UserLocks
    /\ chans \in UserLists
    /\ defexpr = EmptyMap
    /\ refs = [v \in {"main", "master"} |-> "c1"]
    /\ served = "h3"
    /\ pc = "idle"
    /\ mode = 0
    /\ oldList = EmptyMap
    /\ chInputs = EmptyMap
    /\ todo = {}
    /\ names = <<>>
    /\ inputURLs = EmptyMap
    /\ locks = EmptyMap
    /\ calls = <<>>
    /\ err = ""
    /\ hist = NoHist
    /\ NoExec
    /\ NoFiles

Next ==
    \/ UList
    \/ UPrune
    \/ UCombine
    \/ UAdd
    \/ UUpdate

Spec == Init /\ [][Next]_vars

\* the interrupt signal cancels the context while applyUser is running
Cancel ==
    /\ pc \in {"idle", "prune", "combine", "add", "update"}
    /\ ~ctxDone
    /\ ctxDone' = TRUE
    /\ UNCHANGED <<cfg, lock, chans, defexpr, refs, served, pc, mode, oldList,
                   chInputs, todo, names, inputURLs, locks, calls, err, hist,
                   ctxOpts, envUser, execs, files, run, fcall, user, apply>>

NextCancel ==
    \/ Next
    \/ Cancel

SpecCancel == Init /\ [][NextCancel]_vars

---------------------------------------------------------------------------
(* State.applyGlobal: removeTmpChannels, resolveInputs, resolveChannelLocks *)

MaxRuns == 2

noUpdate == 0
updateLocks == 1
updateInputs == 2

\* updateFlag.is
FlagIs(f, other) == f >= other

CurrentUser == "alice"

\* State.preferredUser
PreferredUser(c) ==
    IF c.Global.PreferredUser # ""
    THEN IF c.Global.PreferredUser \in DOMAIN c.Users
         THEN [ok |-> TRUE, Username |-> c.Global.PreferredUser,
               UseSudo |-> c.Users[c.Global.PreferredUser].UseSudo]
         ELSE [ok |-> FALSE, Username |-> "", UseSudo |-> FALSE]
    ELSE IF CurrentUser = "root"
    THEN [ok |-> TRUE, Username |-> "root", UseSudo |-> FALSE]
    ELSE IF "root" \in DOMAIN c.Users /\ c.Users["root"].UseSudo
    THEN [ok |-> TRUE, Username |-> "root", UseSudo |-> TRUE]
    ELSE IF CurrentUser \in DOMAIN c.Users
    THEN [ok |-> TRUE, Username |-> CurrentUser, UseSudo |-> FALSE]
    ELSE [ok |-> FALSE, Username |-> "", UseSudo |-> FALSE]

Range(m) == {m[k] : k \in DOMAIN m}

\* Config.ChannelInputs: the inputs of the global, flakes and users' channels
ChannelInputs(c) ==
    Range(c.Global.Channels) \cup Range(c.Flakes.Channels)
        \cup UNION {Range(c.Users[u].Channels) : u \in DOMAIN c.Users}

\* ChannelLock.HashChanged
HashChanged(l, newer) == l.URL = newer.URL /\ l.StoreHash # newer.StoreHash

\* the entries of the list under the temporary prefix, and the others
TmpNames(ch) == {n \in DOMAIN ch : HasPrefix(n, TmpPrefix)}

LiveEntries(ch) == [n \in (DOMAIN ch) \ TmpNames(ch) |-> ch[n]]

\* shortHash: the first 16 characters of the URL's base64 SHA-256
ShortHash(url) == <<"sha256:16", url>>

\* tempName := shortHash(url) + "-" + path.Base(string(input.URL))
TempName(input, url) == <<ShortHash(url), "-", PathBase(input.URL)>>

GFrame == UNCHANGED <<cfg, ctxDone, user, apply, refs, served, oldList, ctxOpts, envUser, execs,
                      files, run, fcall>>

\* the locals of a new applyGlobal call
GStart ==
    /\ pc \in {"idle", "done", "failed"}
    /\ hist.run < MaxRuns
    /\ \E m \in {noUpdate, updateLocks, updateInputs} : mode' = m
    /\ hist' = [NoHist EXCEPT !.run = hist.run + 1,
                              !.lockAtStart = lock,
                              !.liveAtStart = LiveEntries(chans),
                              !.staleAtStart = TmpNames(chans)]
    /\ chInputs' = EmptyMap
    /\ names' = <<>>
    /\ inputURLs' = EmptyMap
    /\ locks' = EmptyMap
    /\ todo' = {}
    /\ calls' = <<>>
    /\ IF PreferredUser(cfg).ok
       THEN pc' = "clean" /\ err' = ""
       ELSE Returned("cannot get preferred user")
    /\ UNCHANGED <<lock, chans, defexpr>>
    /\ GFrame

\* removeTmpChannels' error ignored
AfterCleanIgnored(ok) == "resolve"

\* what applyGlobal does with removeTmpChannels' result
AfterClean(ok) == IF ok THEN "resolve" ELSE "failed"

\* removeTmpChannels: list, then remove every entry under the prefix; the
\* first failing call ends it. gone: the entries removed before that
GClean ==
    /\ pc = "clean"
    /\ \E ok \in BOOLEAN, gone \in SUBSET TmpNames(chans) :
          /\ ok => gone = TmpNames(chans)
          /\ ~ok => (gone # TmpNames(chans) \/ TmpNames(chans) = {})
          /\ chans' = [n \in (DOMAIN chans) \ gone |-> chans[n]]
          /\ defexpr' = [n \in (DOMAIN defexpr) \ gone |-> defexpr[n]]
          /\ calls' = calls \o <<Call("list", <<>>, ok \/ gone # {})>>
                        \o (IF gone = {} THEN <<>> ELSE <<Call("removes", gone, TRUE)>>)
                        \o (IF ~ok /\ gone # TmpNames(chans)
                            THEN <<Call("removes", TmpNames(chans) \ gone, FALSE)>>
                            ELSE <<>>)
          /\ pc' = AfterClean(ok)
          /\ err' = IF AfterClean(ok) = "failed"
                    THEN "cannot remove existing temporary channels" ELSE err
          /\ hist' = [hist EXCEPT !.cleaned = ok]
    /\ UNCHANGED <<lock, mode, chInputs, todo, names, inputURLs, locks>>
    /\ GFrame

\* the map line 415 of applyGlobal looks an input up in
ReuseLookup(urls, lk) == urls

\* the inputs whose URL is reused, with that URL
Reused(inputs, consulted) == [i \in inputs \cap DOMAIN consulted |-> consulted[i]]

\* the inputs applyGlobal hands to resolveInputs
ToResolve(f, inputs, urls, lk) ==
    IF FlagIs(f, updateInputs) THEN inputs
    ELSE inputs \ DOMAIN Reused(inputs, ReuseLookup(urls, lk))

\* inputURLs: resolveInputs' result for all inputs, or the reused URLs with
\* the result for the missing ones
GResolve ==
    /\ pc = "resolve"
    /\ LET inputs  == ChannelInputs(cfg)
           missing == ToResolve(mode, inputs, inputURLs, lock)
           kept    == IF FlagIs(mode, updateInputs) THEN EmptyMap
                      ELSE Reused(inputs, ReuseLookup(inputURLs, lock))
       IN  /\ hist' = [hist EXCEPT !.resolved = missing]
           /\ \E ok \in BOOLEAN :
                 IF ok \/ missing = {}
                 THEN /\ inputURLs' = MapMerge(kept, [i \in missing |-> Resolve(i, refs)])
                      /\ pc' = "locks"
                      /\ err' = err
                 ELSE /\ Returned(IF FlagIs(mode, updateInputs)
                                    THEN "cannot resolve input URLs"
                                    ELSE "cannot resolve missing input URLs")
                      /\ inputURLs' = inputURLs
    /\ UNCHANGED <<lock, chans, defexpr, mode, chInputs, todo, names, locks, calls>>
    /\ GFrame

\* resolveChannelLocks: nothing to do for no inputs, else the add loop
GLocks ==
    /\ pc = "locks"
    /\ IF DOMAIN inputURLs = {}
       THEN pc' = "merge" /\ todo' = {}
       ELSE pc' = "tmpadd" /\ todo' = DOMAIN inputURLs
    /\ UNCHANGED <<lock, chans, defexpr, mode, chInputs, names, inputURLs, locks,
                   calls, err, hist>>
    /\ GFrame

\* one iteration of the temporary add loop, or its end
GTmpAdd ==
    /\ pc = "tmpadd"
    /\ IF todo = {}
       THEN /\ pc' = "tmpupdate"
            /\ UNCHANGED <<chans, chInputs, todo, names, calls, err, hist>>
       ELSE \E input \in todo, ok \in BOOLEAN :
            LET chName == ExecerName(TRUE, TempName(input, inputURLs[input]))
            IN  /\ todo' = todo \ {input}
                /\ calls' = Append(calls, Call("add", chName, ok))
                /\ IF ok
                   THEN /\ chans' = ToolAdd(chans, chName, inputURLs[input])
                        /\ chInputs' = MapPut(chInputs, chName, input)
                        /\ names' = Append(names, chName)
                        /\ hist' = [hist EXCEPT
                                      !.added = MapPut(@, chName, inputURLs[input])]
                        /\ UNCHANGED <<pc, err>>
                   ELSE /\ Returned("cannot add channel")
                        /\ UNCHANGED <<chans, chInputs, names, hist>>
    /\ UNCHANGED <<lock, defexpr, mode, inputURLs, locks>>
    /\ GFrame

\* channels.update(channelNames...)
GTmpUpdate ==
    /\ pc = "tmpupdate"
    /\ \E ok \in BOOLEAN :
          /\ calls' = Append(calls, Call("update", names, ok))
          /\ IF ok
             THEN /\ defexpr' = ToolUpdate(chans, defexpr, names, served)
                  /\ pc' = "measure"
                  /\ err' = err
             ELSE /\ Returned("cannot update channels")
                  /\ defexpr' = defexpr
    /\ UNCHANGED <<lock, chans, mode, chInputs, todo, names, inputURLs, locks, hist>>
    /\ GFrame

\* the hash copied from the existing lock entry instead of measured
MeasuredHashCopied(name, input) ==
    IF input \in DOMAIN lock THEN lock[input].StoreHash
    ELSE ParseStorePath(defexpr[name]).Hash

\* the store hash resolveChannelLocks gives the lock of the input added as name
MeasuredHash(name, input) == ParseStorePath(defexpr[name]).Hash

\* the measure loop: ChannelSourcePath and ParseStorePath of every added name
GMeasure ==
    /\ pc = "measure"
    /\ \E ok \in BOOLEAN :
          IF ok /\ \A n \in DOMAIN chInputs :
                      n \in DOMAIN defexpr /\ ParseStorePath(defexpr[n]).ok
          THEN /\ locks' = [i \in Range(chInputs) |->
                             LET n == CHOOSE n \in DOMAIN chInputs : chInputs[n] = i
                             IN  ChannelLock(inputURLs[i], MeasuredHash(n, i))]
               /\ todo' = Range(chInputs)
               /\ pc' = "merge"
               /\ err' = err
          ELSE /\ Returned("cannot get source path for channel")
               /\ UNCHANGED <<locks, todo>>
    /\ UNCHANGED <<lock, chans, defexpr, mode, chInputs, names, inputURLs, calls, hist>>
    /\ GFrame

\* the lock map rebuilt from the entry written instead of updated in place
MergedLockOnly(lk, input, newer) == (input :> newer)

\* s.Lock.Channels[input] = lock: the map applyGlobal leaves after the write
MergedLock(lk, input, newer) == MapPut(lk, input, newer)

\* one iteration of the loop that writes locks into s.Lock.Channels, or its end
GMerge ==
    /\ pc = "merge"
    /\ IF todo = {}
       THEN /\ pc' = "done"
            /\ UNCHANGED <<lock, todo, err>>
       ELSE \E input \in todo :
            /\ todo' = todo \ {input}
            /\ IF /\ input \in DOMAIN lock
                  /\ HashChanged(lock[input], locks[input])
                  /\ ~FlagIs(mode, updateLocks)
               THEN /\ Returned("channel has a different store hash")
                    /\ lock' = lock
               ELSE /\ lock' = MergedLock(lock, input, locks[input])
                    /\ UNCHANGED <<pc, err>>
    /\ UNCHANGED <<chans, defexpr, mode, chInputs, names, inputURLs, locks, calls, hist>>
    /\ GFrame

GlobalConfigs ==
    { Config(GlobalCfg("", (<<"r">> :> InA), EmptyMap),
             Registry((<<"r">> :> InB), EmptyMap),
             (User :> UserConfig(FALSE, FALSE, EmptyMap, EmptyMap))),
      Config(GlobalCfg("", (Nc :> InC), EmptyMap),
             NoRegistry,
             (User :> UserConfig(FALSE, FALSE, (Na :> InA), EmptyMap))),
      Config(GlobalCfg("bob", (Nc :> InC), EmptyMap),
             NoRegistry,
             (User :> UserConfig(FALSE, FALSE, EmptyMap, EmptyMap))) }

\* lock files of earlier runs: none, one written when both branches were at
\* other commits and the plain URL served h3, and a part of it
GlobalLocks == {EmptyMap, FullLock, [i \in {InA} |-> FullLock[i]]}

InitGlobal ==
    /\ cfg \in GlobalConfigs
    /\ lock \in GlobalLocks
    /\ chans = (Nx :> UrlX)
    /\ defexpr = (Nx :> StorePathOf("h4", Nx))
    /\ refs \in [{"main", "master"} -> Commits]
    /\ served \in {"h3", "h4"}
    /\ pc = "idle"
    /\ mode = noUpdate
    /\ oldList = EmptyMap
    /\ chInputs = EmptyMap
    /\ todo = {}
    /\ names = <<>>
    /\ inputURLs = EmptyMap
    /\ locks = EmptyMap
    /\ calls = <<>>
    /\ err = ""
    /\ hist = NoHist
    /\ NoExec
    /\ NoFiles

NextGlobal ==
    \/ GStart
    \/ GClean
    \/ GResolve
    \/ GLocks
    \/ GTmpAdd
    \/ GTmpUpdate
    \/ GMeasure
    \/ GMerge

SpecGlobal == InitGlobal /\ [][NextGlobal]_vars

---------------------------------------------------------------------------
(* executil.Exec *)

MaxExecs == 2

OSUsers == {"alice", "root"}

Commands == {<<"nix-channel", "--list">>, <<"nix-env", "--rollback">>}

\* Exec's treatment of UseSudo dropped: sudo whenever the user differs
ExecAlwaysSudo(opts, currentUser, arg0, argv, runOk) ==
    LET username == IF opts.Username = "" THEN currentUser ELSE opts.Username
        cmd == IF username = currentUser THEN <<arg0>> \o argv
               ELSE <<"sudo", "-u", username, arg0>> \o argv
    IN  [cmd |-> cmd, err |-> IF runOk THEN "" ELSE arg0 \o " failed"]

\* Exec: the command it runs (<<>> for none) and the error it returns
Exec(opts, currentUser, arg0, argv, runOk) ==
    LET username == IF opts.Username = "" THEN currentUser ELSE opts.Username
    IN  IF username = currentUser
        THEN [cmd |-> <<arg0>> \o argv,
              err |-> IF runOk THEN "" ELSE arg0 \o " failed"]
        ELSE IF ~opts.UseSudo
        THEN [cmd |-> <<>>, err |-> "cannot run as user"]
        ELSE [cmd |-> <<"sudo", "-u", username, arg0>> \o argv,
              err |-> IF runOk THEN "" ELSE arg0 \o " failed"]

XFrame == UNCHANGED <<cfg, ctxDone, user, apply, lock, chans, defexpr, refs, served, pc, mode, oldList,
                      chInputs, todo, names, inputURLs, locks, calls, err, hist,
                      envUser, files, run, fcall>>

\* WithOpts: the context gets the Opts of the identity to act as
WithOpts ==
    /\ \E u \in OSUsers \cup {""}, sudo \in BOOLEAN :
          ctxOpts' = [UseSudo |-> sudo, Username |-> u]
    /\ UNCHANGED execs
    /\ XFrame

\* one Exec call under the context's Opts; runOk: cmd.Run returned nil
ExecCall ==
    /\ Len(execs) < MaxExecs
    /\ \E c \in Commands, runOk \in BOOLEAN :
          LET r == Exec(ctxOpts, envUser, Head(c), Tail(c), runOk)
          IN  /\ r.cmd = <<>> => runOk
              /\ execs' = Append(execs, [o |-> ctxOpts, arg0 |-> Head(c), argv |-> Tail(c),
                                         cmd |-> r.cmd, err |-> r.err])
    /\ UNCHANGED ctxOpts
    /\ XFrame

InitExec ==
    /\ cfg = Config(GlobalCfg("", EmptyMap, EmptyMap), NoRegistry, EmptyMap)
    /\ lock = EmptyMap
    /\ chans = EmptyMap
    /\ defexpr = EmptyMap
    /\ refs = [v \in {"main", "master"} |-> "c1"]
    /\ served = "h3"
    /\ pc = "idle"
    /\ mode = noUpdate
    /\ oldList = EmptyMap
    /\ chInputs = EmptyMap
    /\ todo = {}
    /\ names = <<>>
    /\ inputURLs = EmptyMap
    /\ locks = EmptyMap
    /\ calls = <<>>
    /\ err = ""
    /\ hist = NoHist
    /\ ctxOpts = NoOpts
    /\ envUser \in OSUsers
    /\ execs = <<>>
    /\ OneCall
    /\ NoFiles

NextExec ==
    \/ WithOpts
    \/ ExecCall

SpecExec == InitExec /\ [][NextExec]_vars

---------------------------------------------------------------------------
(* cmd/bonito: cmdRun and writeToFile *)

\* the writes f.Write(b) can stop after: b is written in this many pieces
WriteChunks == 2

\* a complete file holding data
FileOf(data) == [exists |-> TRUE, data |-> data, written |-> WriteChunks]

Complete(f) == f.exists /\ f.written = WriteChunks

\* tryReadLockFile: a missing lock file is the empty LockFile
ReadLock(f) == IF f.exists THEN f.data ELSE EmptyMap

\* the locks an applyGlobal call can leave in State.Lock
RunLocks == GlobalLocks \cup {(InC :> ChannelLock(InC.URL, "h4"))}

RunConfigs ==
    GlobalConfigs \cup
        {Config(GlobalCfg("", EmptyMap, EmptyMap), NoRegistry,
                (User :> UserConfig(FALSE, FALSE, EmptyMap, EmptyMap)))}

\* cmdRun going on although the step returned an error
RunNextAlways(ok, next) == next

\* cmdRun after a step: on an error it returns it, else it goes on
RunNext(ok, next) == IF ok THEN next ELSE "returned"

\* writeToFile creating and writing the destination itself
WriteInPlace(dst) == dst

\* the file writeToFile creates and writes: os.CreateTemp in dst's directory
WriteTarget(dst) == "tmp"

RFrame == UNCHANGED <<cfg, ctxDone, user, apply, chans, defexpr, refs, served, oldList, chInputs, todo,
                      names, inputURLs, locks, calls, hist, ctxOpts, envUser, execs,
                      fcall>>

StepDone(name, ok) ==
    [run EXCEPT !.okSteps = IF ok THEN @ \cup {name} ELSE @]

\* readState, and the choice of the update step by the flags
RStart ==
    /\ pc = "idle"
    /\ lock' = ReadLock(files["lock"])
    /\ pc' = IF run.update # "" THEN "update" ELSE "apply"
    /\ run' = [run EXCEPT !.lockAtStart = files["lock"]]
    /\ UNCHANGED <<mode, err, files>>
    /\ RFrame

\* the --update / --update-locks step: newState shares the Channels map with
\* state, so whatever applyGlobal wrote is in state.Lock also when it failed
RUpdate ==
    /\ pc = "update"
    /\ mode' = IF run.update = "update" THEN updateInputs ELSE updateLocks
    /\ IF ChannelInputs(cfg) = {}
       THEN /\ pc' = "returned"
            /\ UNCHANGED <<lock, err, run>>
       ELSE \E ok \in BOOLEAN, l \in RunLocks :
            /\ lock' = MapMerge(lock, l)
            /\ pc' = RunNext(ok, "apply")
            /\ err' = IF ok THEN err
                      ELSE IF run.update = "update"
                      THEN "cannot update inputs to latest versions"
                      ELSE "cannot update locks"
            /\ run' = StepDone("update", ok)
    /\ UNCHANGED files
    /\ RFrame

\* state.Apply: applyGlobal(noUpdate) and every applyUser
RApply ==
    /\ pc = "apply"
    /\ mode' = noUpdate
    /\ \E ok \in BOOLEAN, l \in RunLocks :
          /\ lock' = MapMerge(lock, l)
          /\ pc' = RunNext(ok, IF run.flakes THEN "registry" ELSE "save")
          /\ err' = IF ok THEN err ELSE "cannot apply"
          /\ run' = StepDone("apply", ok)
    /\ UNCHANGED files
    /\ RFrame

\* writeToFile(b, dst) is entered; after: where cmdRun goes on when it returns nil
EnterWrite(r, data, dst, after) ==
    [r EXCEPT !.dst = dst, !.tmp = WriteTarget(dst), !.new = FileOf(data),
              !.prev = files[dst], !.after = after, !.werr = ""]

\* saveNixRegistryFile: GenerateNixRegistry, then writeToFile of its JSON
RRegistry ==
    /\ pc = "registry"
    /\ \E ok \in BOOLEAN :
          /\ pc' = RunNext(ok, "wcreate")
          /\ err' = IF ok THEN err ELSE "cannot save nix registry file"
          /\ run' = IF RunNext(ok, "wcreate") = "wcreate"
                    THEN EnterWrite(run, lock, "registry", "save") ELSE run
    /\ UNCHANGED <<lock, mode, files>>
    /\ RFrame

\* saveLockFile: writeToFile of s.Lock.String()
RSave ==
    /\ pc = "save"
    /\ pc' = "wcreate"
    /\ run' = EnterWrite(StepDone("registry", run.flakes), lock, "lock", "returned")
    /\ UNCHANGED <<lock, mode, err, files>>
    /\ RFrame

\* os.CreateTemp: an empty file, or the error
WCreate ==
    /\ pc = "wcreate"
    /\ \E ok \in BOOLEAN :
          IF ok
          THEN /\ files' = [files EXCEPT ![run.tmp] =
                               [exists |-> TRUE, data |-> run.new.data, written |-> 0]]
               /\ pc' = "wwrite"
               /\ UNCHANGED <<err, run>>
          ELSE /\ pc' = "returned"
               /\ err' = IF run.dst = "lock" THEN "cannot save lock file"
                         ELSE "cannot save nix registry file"
               /\ UNCHANGED <<files, run>>
    /\ UNCHANGED <<lock, mode>>
    /\ RFrame

\* f.Write(b): one more piece reaches the file, or the write fails short
WWrite ==
    /\ pc = "wwrite"
    /\ \E ok \in BOOLEAN :
          IF ok
          THEN /\ files' = [files EXCEPT ![run.tmp].written = @ + 1]
               /\ pc' = IF files[run.tmp].written + 1 = WriteChunks
                        THEN "wrename" ELSE "wwrite"
               /\ run' = run
          ELSE /\ pc' = "wcleanup"
               /\ run' = [run EXCEPT !.werr = "cannot write to temporary lock file"]
               /\ files' = files
    /\ UNCHANGED <<lock, mode, err>>
    /\ RFrame

\* os.Rename(f.Name(), dst): dst becomes the temporary file in one step
WRename ==
    /\ pc = "wrename"
    /\ \E ok \in BOOLEAN :
          IF ok
          THEN /\ files' = IF run.tmp = run.dst THEN files
                           ELSE [files EXCEPT ![run.dst] = files[run.tmp],
                                              ![run.tmp] = Absent]
               /\ run' = run
          ELSE /\ run' = [run EXCEPT !.werr = "cannot commit lock file"]
               /\ files' = files
    /\ pc' = "wcleanup"
    /\ UNCHANGED <<lock, mode, err>>
    /\ RFrame

\* the deferred os.Remove(f.Name()) and f.Close(), then writeToFile returns
WCleanup ==
    /\ pc = "wcleanup"
    /\ \E ok \in BOOLEAN :
          files' = IF ok THEN [files EXCEPT ![run.tmp] = Absent] ELSE files
    /\ IF run.werr = ""
       THEN pc' = run.after /\ err' = err
       ELSE /\ pc' = "returned"
            /\ err' = IF run.dst = "lock" THEN "cannot save lock file"
                      ELSE "cannot save nix registry file"
    /\ UNCHANGED <<lock, mode, run>>
    /\ RFrame

\* the process dies where it is: the files stay as they are
RCrash ==
    /\ pc \notin {"idle", "returned", "crashed"}
    /\ pc' = "crashed"
    /\ UNCHANGED <<lock, mode, err, files, run>>
    /\ RFrame

InitRun ==
    /\ cfg \in RunConfigs
    /\ \E l \in {EmptyMap, FullLock} :
          files = [p \in {"lock", "registry", "tmp"} |->
                      IF p = "lock" /\ l # EmptyMap THEN FileOf(l) ELSE Absent]
    /\ \E u \in {"", "update", "update-locks"}, f \in BOOLEAN :
          run = [NoRun EXCEPT !.update = u, !.flakes = f]
    /\ lock = EmptyMap
    /\ chans = EmptyMap
    /\ defexpr = EmptyMap
    /\ refs = [v \in {"main", "master"} |-> "c1"]
    /\ served = "h3"
    /\ pc = "idle"
    /\ mode = noUpdate
    /\ oldList = EmptyMap
    /\ chInputs = EmptyMap
    /\ todo = {}
    /\ names = <<>>
    /\ inputURLs = EmptyMap
    /\ locks = EmptyMap
    /\ calls = <<>>
    /\ err = ""
    /\ hist = NoHist
    /\ NoExec
    /\ fcall = <<>>

NextRun ==
    \/ RStart
    \/ RUpdate
    \/ RApply
    \/ RRegistry
    \/ RSave
    \/ WCreate
    \/ WWrite
    \/ WRename
    \/ WCleanup
    \/ RCrash

SpecRun == InitRun /\ [][NextRun]_vars

---------------------------------------------------------------------------
(* ChannelInput's text form and LockFile.Eq *)

\* a string is the sequence of its characters; a scheme with its colon
\* stands for one character, as nothing looks inside it
MaxText == 2

Chars == {"https:", "gitea:", "a", " "}

RECURSIVE StringsUpTo(_)
StringsUpTo(n) ==
    IF n = 0 THEN {<<>>}
    ELSE LET shorter == StringsUpTo(n - 1)
         IN  shorter \cup {Append(t, c) : t \in shorter, c \in Chars}

Contains(t, c) == \E i \in 1..Len(t) : t[i] = c

\* the keys of ChannelResolvers
ResolverSchemes == {"git:", "github:", "gitlab:", "gitsrht:", "http:", "https:"}

\* url.Parse's Scheme: what stands before the first colon
UrlScheme(u) == IF u # <<>> /\ Head(u) \in {"https:", "gitea:"} THEN Head(u) ELSE ""

\* ChannelURL.Validate
Validate(u) == ~Contains(u, " ") /\ UrlScheme(u) \in ResolverSchemes

\* ChannelInput.String
InputString(in) ==
    IF in.Version # <<>> THEN in.URL \o <<" ">> \o in.Version ELSE in.URL

\* ChannelInput.MarshalText
MarshalText(in) ==
    IF Validate(in.URL) THEN [ok |-> TRUE, text |-> InputString(in)]
    ELSE [ok |-> FALSE, text |-> <<>>]

\* the index of the first / last c of t, 0 if there is none
IndexOf(t, c) ==
    IF Contains(t, c) THEN CHOOSE i \in 1..Len(t) :
                               t[i] = c /\ \A j \in 1..(i - 1) : t[j] # c
    ELSE 0

LastIndexOf(t, c) ==
    IF Contains(t, c) THEN CHOOSE i \in 1..Len(t) :
                               t[i] = c /\ \A j \in (i + 1)..Len(t) : t[j] # c
    ELSE 0

\* the split made at the last space instead of the first
SplitLast(t) ==
    LET i == LastIndexOf(t, " ")
    IN  IF i = 0 THEN <<t>>
        ELSE <<SubSeq(t, 1, i - 1), SubSeq(t, i + 1, Len(t))>>

\* strings.SplitN(text, " ", 2)
SplitN2(t) ==
    LET i == IndexOf(t, " ")
    IN  IF i = 0 THEN <<t>>
        ELSE <<SubSeq(t, 1, i - 1), SubSeq(t, i + 1, Len(t))>>

\* ChannelInput.UnmarshalText
UnmarshalText(t) ==
    LET parts == SplitN2(t)
        in    == [URL |-> parts[1],
                  Version |-> IF Len(parts) = 2 THEN parts[2] ELSE <<>>]
    IN  [ok |-> Validate(in.URL), in |-> in]

PFrame == UNCHANGED <<cfg, ctxDone, user, apply, lock, chans, defexpr, refs, served, pc, mode, oldList,
                      chInputs, todo, names, inputURLs, locks, calls, err, hist,
                      ctxOpts, envUser, execs, files, run>>

\* text, err := in.MarshalText()
TMarshal ==
    /\ fcall.at = "input"
    /\ fcall' = [fcall EXCEPT !.at = IF MarshalText(fcall.in).ok THEN "text"
                                     ELSE "invalid",
                              !.text = MarshalText(fcall.in).text]
    /\ PFrame

\* err := out.UnmarshalText(text)
TUnmarshal ==
    /\ fcall.at = "text"
    /\ fcall' = [fcall EXCEPT !.at = "parsed", !.out = UnmarshalText(fcall.text)]
    /\ PFrame

PureInit ==
    /\ cfg = Config(GlobalCfg("", EmptyMap, EmptyMap), NoRegistry, EmptyMap)
    /\ lock = EmptyMap
    /\ chans = EmptyMap
    /\ defexpr = EmptyMap
    /\ refs = [v \in {"main", "master"} |-> "c1"]
    /\ served = "h3"
    /\ pc = "idle"
    /\ mode = noUpdate
    /\ oldList = EmptyMap
    /\ chInputs = EmptyMap
    /\ todo = {}
    /\ names = <<>>
    /\ inputURLs = EmptyMap
    /\ locks = EmptyMap
    /\ calls = <<>>
    /\ err = ""
    /\ hist = NoHist
    /\ NoExec
    /\ files = [p \in {"lock", "registry", "tmp"} |-> Absent]
    /\ run = NoRun

InitText ==
    /\ PureInit
    /\ \E u \in StringsUpTo(MaxText), v \in StringsUpTo(MaxText) :
          fcall = [at |-> "input", in |-> [URL |-> u, Version |-> v],
                   text |-> <<>>, out |-> [ok |-> FALSE, in |-> [URL |-> <<>>,
                                                                Version |-> <<>>]]]

NextText ==
    \/ TMarshal
    \/ TUnmarshal

SpecText == InitText /\ [][NextText]_vars

\* Eq without the comparison of the lengths
LockEqOneWay(l, old) ==
    \A input \in DOMAIN l : input \in DOMAIN old /\ old[input] = l[input]

\* LockFile.Eq
LockEq(l, old) ==
    /\ Cardinality(DOMAIN l) = Cardinality(DOMAIN old)
    /\ \A input \in DOMAIN l : input \in DOMAIN old /\ old[input] = l[input]

EqValues ==
    {ChannelLock(UrlX, "h1"), ChannelLock(UrlX, "h2"), ChannelLock(UrlOld, "h1")}

EqLocks == UNION {[ks -> EqValues] : ks \in SUBSET {InA, InC}}

\* l1.Eq(l2) and l2.Eq(l1)
EqCall ==
    /\ fcall.at = "input"
    /\ fcall' = [fcall EXCEPT !.at = "compared",
                              !.eq = LockEq(fcall.l1, fcall.l2),
                              !.rev = LockEq(fcall.l2, fcall.l1)]
    /\ PFrame

InitEq ==
    /\ PureInit
    /\ \E l1 \in EqLocks, l2 \in EqLocks :
          fcall = [at |-> "input", l1 |-> l1, l2 |-> l2, eq |-> FALSE, rev |-> FALSE]

NextEq == EqCall

SpecEq == InitEq /\ [][NextEq]_vars

---------------------------------------------------------------------------
(* resolveGit called on one input against one remote *)

FullRev == "1ffba9f2f683063c2b14c9f4d12c55ad5f4ed887"

GitURLs ==
    {"git://github.com/NixOS/nixpkgs", "github:NixOS/nixpkgs",
     "git://gitlab.com/diamondburned/dotfiles", "gitlab:diamondburned/dotfiles",
     "github:example.com/o/r", "gitlab:example.com/o/r", "gitea:o/r",
     "gitsrht:o/r", "github:r", "gitlab:a/b/c/d", "git://example.com/o/r",
     "hg:o/r"}

GitVersions == {"1ffba9f", FullRev, "main", "dev", "v*", "refs/tags/v*", "x*"}

\* version-sorted listings of a remote: an empty repository, one branch, and
\* branches with a lightweight and an annotated tag
GitListings ==
    {<<>>,
     <<<<"k1", "HEAD">>, <<"k1", "refs/heads/main">>>>,
     <<<<"k1", "HEAD">>, <<"k1", "refs/heads/main">>, <<"k2", "refs/heads/v1">>,
       <<"k3", "refs/heads/v2">>, <<"k4", "refs/tags/v0">>,
       <<"k5", "refs/tags/v1">>, <<"k6", "refs/tags/v1^{}">>>>}

\* url, err := resolveGit(ctx, in)
GitResolve ==
    /\ fcall.at = "input"
    /\ \E runOk \in BOOLEAN :
          fcall' = [fcall EXCEPT !.at = "resolved", !.runOk = runOk,
                                 !.out = resolveGit(fcall.in, fcall.listing, runOk)]
    /\ PFrame

InitGit ==
    /\ PureInit
    /\ \E u \in GitURLs, v \in GitVersions, l \in GitListings :
          fcall = [at |-> "input", in |-> [URL |-> u, Version |-> v],
                   listing |-> l, runOk |-> FALSE,
                   out |-> GitFailed("", NoRefCommit)]

NextGit == GitResolve

SpecGit == InitGit /\ [][NextGit]_vars

---------------------------------------------------------------------------
(* nixutil.ParseStorePathWithRoot *)

\* the alphabet of nixbase32: the digits and the letters without e, o, t, u
NixBase32 == {"0", "1", "2", "3", "4", "5", "6", "7", "8", "9",
              "a", "b", "c", "d", "f", "g", "h", "i", "j", "k", "l", "m", "n",
              "p", "q", "r", "s", "v", "w", "x", "y", "z"}

\* StoreHash.Decode succeeds: every character is of the alphabet
Decodes(h) == \A i \in 1..Len(h) : CharAt(h, i) \in NixBase32

\* the elements of a path, empty ones dropped as filepath.Clean does
RECURSIVE NonEmpty(_)
NonEmpty(parts) ==
    IF parts = <<>> THEN <<>>
    ELSE IF Head(parts) = "" THEN NonEmpty(Tail(parts))
    ELSE <<Head(parts)>> \o NonEmpty(Tail(parts))

PathElems(p) == NonEmpty(StrSplit(p, "/"))

\* how many leading elements two paths share
RECURSIVE CommonLen(_, _)
CommonLen(b, t) ==
    IF b = <<>> \/ t = <<>> \/ Head(b) # Head(t) THEN 0
    ELSE 1 + CommonLen(Tail(b), Tail(t))

\* filepath.Rel(root, path) for paths without . and .. elements: one ..
\* for each element of root outside the shared prefix, then the rest of path
Rel(root, path) ==
    LET b  == PathElems(root)
        t  == PathElems(path)
        k  == CommonLen(b, t)
        up == [i \in 1..(Len(b) - k) |-> ".."]
        el == up \o SubSeq(t, k + 1, Len(t))
    IN  IF HasPrefix(root, "/") # HasPrefix(path, "/") THEN [ok |-> FALSE, name |-> ""]
        ELSE [ok |-> TRUE, name |-> IF el = <<>> THEN "." ELSE StrJoin(el, "/")]

\* the split made at the last dash instead of the first
SplitDashLast(name) ==
    LET ds == {i \in 1..Len(name) : CharAt(name, i) = "-"}
        i  == IF ds = {} THEN 0 ELSE CHOOSE d \in ds : \A e \in ds : e <= d
    IN  IF i = 0 THEN <<name>>
        ELSE <<SubSeq(name, 1, i - 1), SubSeq(name, i + 1, Len(name))>>

\* strings.SplitN(name, "-", 2)
SplitDash(name) ==
    LET i == StrIndex(name, "-")
    IN  IF i = 0 THEN <<name>>
        ELSE <<SubSeq(name, 1, i - 1), SubSeq(name, i + 1, Len(name))>>

NoStorePath == [Root |-> "", Name |-> "", Hash |-> ""]

\* ParseStorePathWithRoot(root, path)
ParseStorePathWithRoot(root, path) ==
    LET rel   == Rel(root, path)
        elems == StrSplit(rel.name, "/")
        name  == IF Len(elems) > 1 THEN elems[1] ELSE rel.name
        parts == SplitDash(name)
        sp    == [Root |-> root, Name |-> parts[2], Hash |-> parts[1]]
    IN  IF ~rel.ok THEN [ok |-> FALSE, err |-> "invalid path", sp |-> NoStorePath]
        ELSE IF Len(parts) # 2
             THEN [ok |-> FALSE, err |-> "invalid nix-store name", sp |-> NoStorePath]
        ELSE IF ~Decodes(sp.Hash)
             THEN [ok |-> FALSE, err |-> "invalid nixbase32 hash", sp |-> sp]
        ELSE [ok |-> TRUE, err |-> "", sp |-> sp]

StoreRoots == {"/nix/store", "/nix/store/", "/nix", "/", "store"}

StorePaths ==
    {"/nix/store/4ch3bm9bx98jf68ri8jmx00k479mv8g6-nixos/nixos",
     "/nix/store/4ch3bm9bx98jf68ri8jmx00k479mv8g6-nixos",
     "/nix/store/abc-nixos-23.05/x/y", "/nix/store/abc-x/",
     "/nix/store/etu-bad", "/nix/store/ABC-x", "/nix/store/nodash",
     "/nix/store/nodash/abc-x", "/nix/store/-name", "/nix/store/abc-",
     "/nix/store", "/nix", "/", "/nix/other/abc-x", "/nix/abc-x", "/abc-x",
     "/nix/storeabc-x", "/nix/store-abc/x", "nix/store/abc-x", "store/abc-x",
     "store", "abc-x", "/other/nix/store/abc-x"}

\* sp, err := ParseStorePathWithRoot(root, path)
SParse ==
    /\ fcall.at = "input"
    /\ fcall' = [fcall EXCEPT !.at = "parsed",
                              !.out = ParseStorePathWithRoot(fcall.root, fcall.path)]
    /\ PFrame

InitStore ==
    /\ PureInit
    /\ \E r \in StoreRoots, p \in StorePaths :
          fcall = [at |-> "input", root |-> r, path |-> p,
                   out |-> [ok |-> FALSE, err |-> "", sp |-> NoStorePath]]

NextStore == SParse

SpecStore == InitStore /\ [][NextStore]_vars

---------------------------------------------------------------------------
(* State.flakesRegistry, GenerateNixRegistry and saveNixRegistryFile *)

\* the [flakes] table: a channel registry and the output format
FlakesCfg(ch, al, output) == [Channels |-> ch, Aliases |-> al, Output |-> output]

\* A store directory maps a store hash to what lies under it: nothing
\* ("missing"), the channel without a flake.nix ("plain") or with one ("flake")
StoreStates == {"missing", "plain", "flake"}

\* the marker check that accepts a store path without a flake.nix
FlakeFailureNoMarker(input, lk, store) ==
    IF input \notin DOMAIN lk THEN "has no lock"
    ELSE IF store[lk[input].StoreHash] = "missing" THEN "cannot find store hash"
    ELSE ""

\* one round of flakesRegistry's loop: the error of a channel, "" for none
FlakeFailure(input, lk, store) ==
    IF input \notin DOMAIN lk THEN "has no lock"
    ELSE IF store[lk[input].StoreHash] = "missing" THEN "cannot find store hash"
    ELSE IF store[lk[input].StoreHash] # "flake" THEN "has no flake.nix file"
    ELSE ""

\* flakeRoot: <storePath>/<name>, the store path being <root>/<hash>-<name>
FlakeRoot(hash, name) == <<StoreDir, hash, "-">> \o name \o <<"/">> \o name

NoRegistryDoc == [format |-> "", flakes |-> EmptyMap]

RegistryFailed(e, n) == [ok |-> FALSE, err |-> e, channel |-> n, doc |-> NoRegistryDoc]

\* flakesRegistry: the loop stops at the first channel that fails, which the
\* iteration order makes any of the failing ones; the flakes are kept as a
\* map from the id to the path
flakesRegistry(c, lk, store) ==
    UNION { IF ~comb.ok THEN {RegistryFailed("cannot combine channels", <<>>)}
            ELSE LET bad == {n \in DOMAIN comb.m : FlakeFailure(comb.m[n], lk, store) # ""}
                 IN  IF bad # {}
                     THEN {RegistryFailed(FlakeFailure(comb.m[n], lk, store), n) : n \in bad}
                     ELSE {[ok |-> TRUE, err |-> "", channel |-> <<>>,
                            doc |-> [format |-> "flakes",
                                     flakes |-> [n \in DOMAIN comb.m |->
                                         FlakeRoot(lk[comb.m[n]].StoreHash, n)]]]}
            : comb \in CombineChannelRegistries(<<c.Global, c.Flakes>>) }

\* flakesRegistryV2.convertToNixRegistry: the ids get the bonito: prefix
convertToNixRegistry(flakes) ==
    [k \in {<<"bonito:">> \o n : n \in DOMAIN flakes} |-> flakes[Tail(k)]]

\* GenerateNixRegistry
GenerateNixRegistry(c, lk, store) ==
    { IF ~r.ok THEN r
      ELSE IF c.Flakes.Output = "nix"
           THEN [r EXCEPT !.doc = [format |-> "nix",
                                   flakes |-> convertToNixRegistry(r.doc.flakes)]]
      ELSE IF c.Flakes.Output = "flakes" THEN r
      ELSE RegistryFailed("unknown output format", <<>>)
      : r \in flakesRegistry(c, lk, store) }

\* saveNixRegistryFile: the document is generated, then written with
\* writeToFile, whose temporary file is gone when it returns
SaveNixRegistryFile ==
    /\ fcall.at = "input"
    /\ \E r \in GenerateNixRegistry(cfg, lock, fcall.store), wok \in BOOLEAN :
          /\ fcall' = [fcall EXCEPT !.at = "returned", !.out = r,
                                    !.err = IF ~r.ok THEN "cannot generate flakes registry"
                                            ELSE IF ~wok THEN "cannot write"
                                            ELSE ""]
          /\ files' = IF r.ok /\ wok
                      THEN [files EXCEPT !["registry"] = FileOf(r.doc)]
                      ELSE files
    /\ UNCHANGED <<cfg, ctxDone, user, apply, lock, chans, defexpr, refs, served, pc, mode, oldList,
                   chInputs, todo, names, inputURLs, locks, calls, err, hist,
                   ctxOpts, envUser, execs, run>>

RegistryConfigs ==
    { Config(GlobalCfg("", gch, EmptyMap), FlakesCfg(fch, fal, output), EmptyMap) :
        gch \in {EmptyMap, (Ng :> InC)},
        fch \in {EmptyMap, (Na :> InA), (Na :> InA) @@ (Nb :> InB)},
        fal \in {EmptyMap, (Nc :> Na)},
        output \in {"nix", "flakes", "toml"} }

RegistryLocks == {FullLock, [i \in {InB, InC} |-> FullLock[i]], EmptyMap}

InitRegistry ==
    /\ cfg \in RegistryConfigs
    /\ lock \in RegistryLocks
    /\ chans = EmptyMap
    /\ defexpr = EmptyMap
    /\ refs = [v \in {"main", "master"} |-> "c1"]
    /\ served = "h3"
    /\ pc = "idle"
    /\ mode = noUpdate
    /\ oldList = EmptyMap
    /\ chInputs = EmptyMap
    /\ todo = {}
    /\ names = <<>>
    /\ inputURLs = EmptyMap
    /\ locks = EmptyMap
    /\ calls = <<>>
    /\ err = ""
    /\ hist = NoHist
    /\ NoExec
    /\ files = [p \in {"lock", "registry", "tmp"} |-> Absent]
    /\ run = NoRun
    /\ \E s \in [{"h1", "h2", "h3"} -> StoreStates] :
          fcall = [at |-> "input", store |-> s, err |-> "",
                   out |-> RegistryFailed("", <<>>)]

NextRegistry == SaveNixRegistryFile

SpecRegistry == InitRegistry /\ [][NextRegistry]_vars

---------------------------------------------------------------------------
(* ParseChannelInput *)

NoInput == [URL |-> <<>>, Version |-> <<>>]

\* ParseChannelInput: err is whether the returned error is non-nil
ParseChannelInput(chInput) ==
    IF ~UnmarshalText(chInput).ok THEN [in |-> NoInput, err |-> FALSE]
    ELSE [in |-> UnmarshalText(chInput).in, err |-> FALSE]

\* in, err := ParseChannelInput(chInput)
PParse ==
    /\ fcall.at = "input"
    /\ fcall' = [fcall EXCEPT !.at = "parsed", !.out = ParseChannelInput(fcall.text)]
    /\ PFrame

InitParse ==
    /\ PureInit
    /\ \E t \in StringsUpTo(MaxText + 1) :
          fcall = [at |-> "input", text |-> t, out |-> [in |-> NoInput, err |-> FALSE]]

NextParse == PParse

SpecParse == InitParse /\ [][NextParse]_vars

---------------------------------------------------------------------------
(* resolveInputs with its goroutines, between the cleanup and the adds *)

\* The call is kept in one record: `at` is where applyGlobal stands, `gor`
\* where each goroutine of the errgroup stands, `mu` who holds the mutex,
\* `writing` who is inside the map write, `tool` and `git` the nix-channel
\* and git subprocesses in flight, `issued` the nix-channel calls begun

\* a mutex that never blocks
MutexNeverHeld(mu) == TRUE

\* mu.Lock() can return
MutexFree(mu) == mu = {}

\* a Wait that returns at once
WaitReturnsAtOnce(gor) == TRUE

\* errg.Wait() can return: every goroutine of the group has returned
WaitDone(gor) == \A i \in DOMAIN gor : gor[i] \in {"done", "failed"}

\* a resolveInputs that returns its map along with the error
ReturnPartial(gerr, urls) == [returned |-> TRUE, ok |-> gerr = "", nil |-> FALSE, urls |-> urls]

\* what resolveInputs returns after Wait: nil and the error, or the map
ReturnOf(gerr, urls) ==
    IF gerr # "" THEN [returned |-> TRUE, ok |-> FALSE, nil |-> TRUE, urls |-> EmptyMap]
    ELSE [returned |-> TRUE, ok |-> TRUE, nil |-> FALSE, urls |-> urls]

NotReturned == [returned |-> FALSE, ok |-> FALSE, nil |-> TRUE, urls |-> EmptyMap]

\* removeTmpChannels is called: the cleanup's nix-channel work is in flight
CleanBegin ==
    /\ fcall.at = "start"
    /\ fcall' = [fcall EXCEPT !.at = "cleaning", !.tool = @ \cup {"cleanup"},
                              !.issued = Append(@, "cleanup")]
    /\ PFrame

\* removeTmpChannels returns; on an error applyGlobal returns
CleanEnd ==
    /\ fcall.at = "cleaning"
    /\ \E ok \in BOOLEAN :
          fcall' = [fcall EXCEPT !.at = IF ok THEN "spawn" ELSE "failed",
                                 !.tool = @ \ {"cleanup"},
                                 !.err = IF ok THEN ""
                                         ELSE "cannot remove existing temporary channels",
                                 !.todo = IF ok THEN fcall.given ELSE {}]
    /\ PFrame

\* errg.Go(func) for the next input of the range loop
Go ==
    /\ fcall.at = "spawn"
    /\ \E i \in fcall.todo :
          fcall' = [fcall EXCEPT !.todo = @ \ {i}, !.gor[i] = "started"]
    /\ PFrame

\* input.Resolve(ctx) of an http(s) input: the URL itself, no subprocess
UseSameURL ==
    /\ \E i \in DOMAIN fcall.gor :
          /\ fcall.gor[i] = "started"
          /\ Scheme(i) \in {"https:", "http:"}
          /\ fcall' = [fcall EXCEPT !.gor[i] = "resolved",
                                    !.url = MapPut(@, i, Resolve(i, refs))]
    /\ PFrame

\* input.Resolve(ctx) of a git input: RefCommit starts git ls-remote
LookupBegin ==
    /\ \E i \in DOMAIN fcall.gor :
          /\ fcall.gor[i] = "started"
          /\ Scheme(i) \notin {"https:", "http:"}
          /\ fcall' = [fcall EXCEPT !.gor[i] = "lookup", !.git = @ \cup {i}]
    /\ PFrame

\* git ls-remote has exited and Resolve returns; a failing goroutine
\* returns its error, of which the group keeps the first
LookupEnd ==
    /\ \E i \in DOMAIN fcall.gor, ok \in BOOLEAN :
          /\ fcall.gor[i] = "lookup"
          /\ fcall' = [fcall EXCEPT
                          !.gor[i] = IF ok THEN "resolved" ELSE "failed",
                          !.git = @ \ {i},
                          !.url = IF ok THEN MapPut(@, i, Resolve(i, refs)) ELSE @,
                          !.gerr = IF ok \/ @ # "" THEN @ ELSE "cannot resolve"]
    /\ PFrame

\* mu.Lock()
MuLock ==
    /\ \E i \in DOMAIN fcall.gor :
          /\ fcall.gor[i] = "resolved"
          /\ MutexFree(fcall.mu)
          /\ fcall' = [fcall EXCEPT !.gor[i] = "locked", !.mu = {i}]
    /\ PFrame

\* urls[input] = url begins
WriteBegin ==
    /\ \E i \in DOMAIN fcall.gor :
          /\ fcall.gor[i] = "locked"
          /\ fcall' = [fcall EXCEPT !.gor[i] = "writing", !.writing = @ \cup {i},
                                    !.late = @ \/ fcall.ret.returned]
    /\ PFrame

\* urls[input] = url is done
WriteEnd ==
    /\ \E i \in DOMAIN fcall.gor :
          /\ fcall.gor[i] = "writing"
          /\ fcall' = [fcall EXCEPT !.gor[i] = "written", !.writing = @ \ {i},
                                    !.urls = MapPut(@, i, fcall.url[i])]
    /\ PFrame

\* mu.Unlock() and the goroutine returns nil
MuUnlock ==
    /\ \E i \in DOMAIN fcall.gor :
          /\ fcall.gor[i] = "written"
          /\ fcall' = [fcall EXCEPT !.gor[i] = "done", !.mu = {}]
    /\ PFrame

\* errg.Wait() returns after the range loop, and resolveInputs with it
Wait ==
    /\ fcall.at = "spawn"
    /\ fcall.todo = {}
    /\ WaitDone([i \in fcall.given |-> fcall.gor[i]])
    /\ fcall' = [fcall EXCEPT !.at = "returned", !.ret = ReturnOf(fcall.gerr, fcall.urls)]
    /\ PFrame

\* applyGlobal after resolveInputs: an error is returned, else
\* resolveChannelLocks starts, which does nothing for no inputs
AfterResolve ==
    /\ fcall.at = "returned"
    /\ fcall' = [fcall EXCEPT
                    !.at = IF ~fcall.ret.ok THEN "failed"
                           ELSE IF DOMAIN fcall.ret.urls = {} THEN "done" ELSE "add",
                    !.err = IF fcall.ret.ok THEN ""
                            ELSE IF FlagIs(mode, updateInputs)
                                 THEN "cannot resolve input URLs"
                                 ELSE "cannot resolve missing input URLs",
                    !.inputURLs = fcall.ret.urls,
                    !.todo = DOMAIN fcall.ret.urls]
    /\ PFrame

\* channels.add(tempName, url) is called for the next input
AddBegin ==
    /\ fcall.at = "add"
    /\ \E i \in fcall.todo :
          fcall' = [fcall EXCEPT !.at = "adding", !.todo = @ \ {i},
                                 !.tool = @ \cup {"add"},
                                 !.issued = Append(@, "add")]
    /\ PFrame

\* channels.add returns
AddEnd ==
    /\ fcall.at = "adding"
    /\ \E ok \in BOOLEAN :
          fcall' = [fcall EXCEPT !.at = IF ~ok THEN "failed"
                                        ELSE IF fcall.todo = {} THEN "update" ELSE "add",
                                 !.tool = @ \ {"add"},
                                 !.err = IF ok THEN "" ELSE "cannot add channel"]
    /\ PFrame

\* channels.update(channelNames...) is called
UpdateBegin ==
    /\ fcall.at = "update"
    /\ fcall' = [fcall EXCEPT !.at = "updating", !.tool = @ \cup {"update"},
                              !.issued = Append(@, "update")]
    /\ PFrame

\* channels.update returns
UpdateEnd ==
    /\ fcall.at = "updating"
    /\ \E ok \in BOOLEAN :
          fcall' = [fcall EXCEPT !.at = IF ok THEN "done" ELSE "failed",
                                 !.tool = @ \ {"update"},
                                 !.err = IF ok THEN "" ELSE "cannot update channels"]
    /\ PFrame

ResolveConfigs ==
    { Config(GlobalCfg("", gch, EmptyMap), Registry(fch, EmptyMap), EmptyMap) :
        gch \in {EmptyMap, (Ng :> InC), (Na :> InA) @@ (Ng :> InC)},
        fch \in {EmptyMap, (Nb :> InB)} }

InitResolve ==
    /\ cfg \in ResolveConfigs
    /\ lock = EmptyMap
    /\ chans = EmptyMap
    /\ defexpr = EmptyMap
    /\ refs \in [{"main", "master"} -> Commits]
    /\ served = "h3"
    /\ pc = "idle"
    /\ mode \in {noUpdate, updateInputs}
    /\ oldList = EmptyMap
    /\ chInputs = EmptyMap
    /\ todo = {}
    /\ names = <<>>
    /\ inputURLs = EmptyMap
    /\ locks = EmptyMap
    /\ calls = <<>>
    /\ err = ""
    /\ hist = NoHist
    /\ NoExec
    /\ files = [p \in {"lock", "registry", "tmp"} |-> Absent]
    /\ run = NoRun
    /\ fcall = [at |-> "start",
                given |-> ToResolve(mode, ChannelInputs(cfg), EmptyMap, lock),
                todo |-> {}, gor |-> [i \in ChannelInputs(cfg) |-> "none"],
                url |-> EmptyMap, urls |-> EmptyMap, mu |-> {}, writing |-> {},
                late |-> FALSE, git |-> {}, tool |-> {}, issued |-> <<>>,
                gerr |-> "", ret |-> NotReturned, inputURLs |-> EmptyMap,
                err |-> ""]

NextResolve ==
    \/ CleanBegin
    \/ CleanEnd
    \/ Go
    \/ UseSameURL
    \/ LookupBegin
    \/ LookupEnd
    \/ MuLock
    \/ WriteBegin
    \/ WriteEnd
    \/ MuUnlock
    \/ Wait
    \/ AfterResolve
    \/ AddBegin
    \/ AddEnd
    \/ UpdateBegin
    \/ UpdateEnd

SpecResolve == InitResolve /\ [][NextResolve]_vars

---------------------------------------------------------------------------
(* Two invocations of the command and the advisory file lock *)

Procs == {"p1", "p2"}

MaxToolCalls == 2

\* the steps of one invocation: Before (cmdInit), Action (cmdRun), After
\* (cmdFinish)
NoInvocation == [at |-> "init", locked |-> FALSE, lockErr |-> "", ctxDone |-> FALSE,
                 readState |-> FALSE, tool |-> 0, err |-> ""]

\* cmdInit: where the invocation goes after TryLockContext returned lockErr;
\* the error is logged as a warning and nil is returned
CmdInit(lockErr) == "read"

\* flock.TryLockContext(ctx, time.Second) in cmdInit: the lock is taken when
\* no invocation holds it; otherwise, or when the lock file cannot be opened,
\* or when the context is done, an error is returned
TryLockContext(p) ==
    /\ fcall.proc[p].at = "init"
    /\ \E lockErr \in (IF fcall.held = {} /\ ~fcall.proc[p].ctxDone
                       THEN {"", "open"}
                       ELSE IF fcall.proc[p].ctxDone THEN {"context canceled"}
                       ELSE {"open"}) :
          fcall' = [fcall EXCEPT
                      !.held = IF lockErr = "" THEN @ \cup {p} ELSE @,
                      !.proc[p].locked = (lockErr = ""),
                      !.proc[p].lockErr = lockErr,
                      !.proc[p].at = CmdInit(lockErr)]
    /\ PFrame

\* the interrupt signal cancels the invocation's context
Interrupt(p) ==
    /\ fcall.proc[p].at \in {"init", "read", "apply"}
    /\ ~fcall.proc[p].ctxDone
    /\ fcall' = [fcall EXCEPT !.proc[p].ctxDone = TRUE]
    /\ PFrame

\* cmdRun, first step: readState reads the config and the lock file
ReadState(p) ==
    /\ fcall.proc[p].at = "read"
    /\ \E ok \in BOOLEAN :
          fcall' = [fcall EXCEPT
                      !.proc[p].readState = TRUE,
                      !.proc[p].at = IF ok THEN "apply" ELSE "finish",
                      !.proc[p].err = IF ok THEN "" ELSE "cannot read state"]
    /\ PFrame

\* cmdRun, the update/apply action: one call of the channel tool, which is
\* not started when the context is done
ApplyStep(p) ==
    /\ fcall.proc[p].at = "apply"
    /\ fcall.proc[p].tool < MaxToolCalls
    /\ LET ran == ~fcall.proc[p].ctxDone
       IN  \E ok \in (IF ran THEN BOOLEAN ELSE {FALSE}) :
              fcall' = [fcall EXCEPT
                          !.proc[p].tool = IF ran THEN @ + 1 ELSE @,
                          !.proc[p].at = IF ok /\ fcall.proc[p].tool + 1 < MaxToolCalls
                                         THEN "apply" ELSE "finish",
                          !.proc[p].err = IF ok THEN "" ELSE "cannot apply"]
    /\ PFrame

\* cmdFinish: flockLock.Unlock(), which releases the lock this invocation
\* holds and does nothing for an invocation that holds none
CmdFinish(p) ==
    /\ fcall.proc[p].at = "finish"
    /\ fcall' = [fcall EXCEPT
                   !.held = @ \ (IF fcall.proc[p].locked THEN {p} ELSE {}),
                   !.proc[p].locked = FALSE,
                   !.proc[p].at = "exit"]
    /\ PFrame

InitFlock ==
    /\ PureInit
    /\ fcall = [at |-> "flock", held |-> {}, proc |-> [p \in Procs |-> NoInvocation]]

NextFlock ==
    \E p \in Procs :
        \/ TryLockContext(p)
        \/ Interrupt(p)
        \/ ReadState(p)
        \/ ApplyStep(p)
        \/ CmdFinish(p)

SpecFlock == InitFlock /\ [][NextFlock]_vars

---------------------------------------------------------------------------
(* CombineChannelRegistries called on a list of registries *)

\* registries with no alias, an alias of a channel, an alias of an alias of
\* the same registry, and an alias of an undeclared name
ChannelRegistries ==
    { Registry(ch, al) :
        ch \in {EmptyMap, (Na :> InA), (Na :> InA) @@ (Nb :> InB)},
        al \in {EmptyMap, (Nc :> Na), (Nb :> Na) @@ (Nc :> Nb), (Nc :> Nz)} }

\* channelInputs, err := CombineChannelRegistries(registries), the maps
\* iterated in one of their orders
CCombine ==
    /\ fcall.at = "registries"
    /\ \E x \in CombineChannelRegistries(fcall.regs) :
          fcall' = [fcall EXCEPT !.at = "combined", !.out = x]
    /\ PFrame

InitCombine ==
    /\ PureInit
    /\ \E regs \in {<<r>> : r \in ChannelRegistries}
                     \cup {<<r, s>> : r \in ChannelRegistries, s \in ChannelRegistries} :
          fcall = [at |-> "registries", regs |-> regs, out |-> ErrAlias]

NextCombine == CCombine

SpecCombine == InitCombine /\ [][NextCombine]_vars

---------------------------------------------------------------------------
(* Config.FilterChannels and ChannelRegistry.FilterChannels *)

MaxNames == 2

\* the zero ChannelInput, which indexing a Go map with a missing key yields
ZeroInput == [URL |-> <<>>, Version |-> ""]

\* the channel lists given on the command line
NameLists == UNION {[1..k -> {Na, Nb, Nc}] : k \in 0..MaxNames}

\* ChannelRegistry.FilterChannels: the channels named in nms, the aliases
\* named in nms, and under the name of every kept alias' target what
\* r.Channels holds there; the other fields of the receiver are copied
FilterChannels(r, nms) ==
    LET given == {nms[k] : k \in 1..Len(nms)}
        filteredChannels == [n \in given \cap DOMAIN r.Channels |-> r.Channels[n]]
        filteredAliases == [n \in given \cap DOMAIN r.Aliases |-> r.Aliases[n]]
        targets == Range(filteredAliases) \ DOMAIN filteredChannels
    IN  [r EXCEPT
           !.Channels = MapMerge(filteredChannels,
                                 [t \in targets |->
                                    IF t \in DOMAIN r.Channels THEN r.Channels[t]
                                    ELSE ZeroInput]),
           !.Aliases = filteredAliases]

\* Config.FilterChannels: a copy of cfg with the three kinds of registry
\* filtered, the users in a new map
ConfigFilterChannels(c, nms) ==
    [c EXCEPT !.Global = FilterChannels(c.Global, nms),
              !.Flakes = FilterChannels(c.Flakes, nms),
              !.Users = [u \in DOMAIN c.Users |-> FilterChannels(c.Users[u], nms)]]

\* newState.Config = state.Config.FilterChannels(channels)
FFilter ==
    /\ fcall.at = "config"
    /\ fcall' = [fcall EXCEPT !.at = "filtered",
                              !.out = ConfigFilterChannels(fcall.cfg, fcall.nms)]
    /\ PFrame

InitFilter ==
    /\ PureInit
    /\ \E g \in ChannelRegistries, nms \in NameLists, o \in BOOLEAN :
          LET c == Config(GlobalCfg("", (Na :> InC), (Ng :> Na)),
                          Registry((Nb :> InB), EmptyMap),
                          (User :> UserConfig(FALSE, o, g.Channels, g.Aliases)))
          IN  fcall = [at |-> "config", given |-> c, cfg |-> c, nms |-> nms, out |-> c]

NextFilter == FFilter

SpecFilter == InitFilter /\ [][NextFilter]_vars

---------------------------------------------------------------------------
(* State.Apply: applyGlobal, then applyUser for every user *)

\* the namespace of every identity: the one being operated on and the others
Namespaces ==
    MapPut(apply.profiles, user, [chans |-> chans, defexpr |-> defexpr])

\* Apply going on to the users whatever applyGlobal returned
GlobalPassedAlways(p) == p \in {"done", "failed"}

\* if err := s.applyGlobal(ctx, noUpdate); err != nil { return err }
GlobalPassed(p) == p = "done"

\* the user loop going on after a failed applyUser
UserPassedAlways(p) == p \in {"done", "failed"}

\* if err := s.applyUser(ctx, username, usercfg); err != nil { return err }
UserPassed(p) == p = "done"

AFrame == UNCHANGED <<cfg, lock, refs, served, mode, inputURLs, locks, hist,
                      ctxOpts, envUser, execs, files, run, fcall, ctxDone>>

\* Apply calls applyGlobal with noUpdate
AGlobal ==
    /\ apply.phase = "global"
    /\ pc = "idle"
    /\ GStart
    /\ mode' = noUpdate

\* the next iteration of the loop over s.Config.Users, in the order the map
\* yields: applyUser is called for a user not visited yet, on its namespace
ANextUser ==
    /\ \/ apply.phase = "global" /\ pc \in {"done", "failed"} /\ GlobalPassed(pc)
       \/ apply.phase = "users" /\ pc \in {"done", "failed"} /\ UserPassed(pc)
    /\ apply.pending # {}
    /\ \E u \in apply.pending :
          /\ user' = u
          /\ chans' = Namespaces[u].chans
          /\ defexpr' = Namespaces[u].defexpr
          /\ apply' = [apply EXCEPT
                         !.phase = "users",
                         !.pending = @ \ {u},
                         !.profiles = [w \in (DOMAIN Namespaces) \ {u} |-> Namespaces[w]],
                         !.globalErr = IF apply.phase = "global" THEN err ELSE @,
                         !.atLoop = IF apply.phase = "global" THEN Namespaces ELSE @,
                         !.applied = IF apply.phase = "users" /\ pc = "done"
                                     THEN MapPut(@, user, chans) ELSE @,
                         !.failed = IF apply.phase = "users" /\ pc = "failed" /\ @ = ""
                                    THEN user ELSE @]
    /\ pc' = "idle"
    /\ err' = ""
    /\ oldList' = EmptyMap
    /\ chInputs' = EmptyMap
    /\ todo' = {}
    /\ names' = <<>>
    /\ calls' = calls
    /\ AFrame

\* Apply returns: the error of applyGlobal or of the failing applyUser, or
\* nil after the last user
AReturn ==
    /\ \/ apply.phase = "global" /\ pc \in {"done", "failed"}
          /\ (~GlobalPassed(pc) \/ apply.pending = {})
       \/ apply.phase = "users" /\ pc \in {"done", "failed"}
          /\ (~UserPassed(pc) \/ apply.pending = {})
    /\ apply' = [apply EXCEPT
                   !.phase = "returned",
                   !.globalErr = IF apply.phase = "global" THEN err ELSE @,
                   !.atLoop = IF apply.phase = "global" THEN Namespaces ELSE @,
                   !.applied = IF apply.phase = "users" /\ pc = "done"
                               THEN MapPut(@, user, chans) ELSE @,
                   !.failed = IF apply.phase = "users" /\ pc = "failed" /\ @ = ""
                              THEN user ELSE @]
    /\ UNCHANGED <<chans, defexpr, pc, err, oldList, chInputs, todo, names, calls, user>>
    /\ AFrame

\* three users, each declaring one channel of its own
ApplyUsers ==
    [u \in {"alice", "bob", "carol"} |->
        IF u = "alice" THEN UserConfig(FALSE, FALSE, (Na :> InA), EmptyMap)
        ELSE IF u = "bob" THEN UserConfig(TRUE, FALSE, (Nb :> InB), EmptyMap)
        ELSE UserConfig(TRUE, FALSE, (Nc :> InC), EmptyMap)]

ApplyConfigs ==
    { Config(GlobalCfg("", g, EmptyMap), NoRegistry,
             [ApplyUsers EXCEPT !["alice"].OverrideChannels = o]) :
        g \in {EmptyMap, (Ng :> InC)}, o \in BOOLEAN }

InitApply ==
    /\ cfg \in ApplyConfigs
    /\ lock \in {EmptyMap, FullLock}
    /\ user = "alice"
    /\ chans \in {(Nx :> UrlX), (Na :> UrlOld) @@ (StaleTmp :> InC.URL)}
    /\ defexpr = EmptyMap
    /\ apply = [phase |-> "global", pending |-> DOMAIN cfg.Users,
                profiles |-> ("bob" :> [chans |-> (Nb :> UrlOld), defexpr |-> EmptyMap])
                             @@ ("carol" :> [chans |-> (Nx :> UrlX),
                                             defexpr |-> EmptyMap]),
                atStart |-> ("alice" :> chans) @@ ("bob" :> (Nb :> UrlOld))
                            @@ ("carol" :> (Nx :> UrlX)),
                atLoop |-> EmptyMap, globalErr |-> "",
                applied |-> EmptyMap, failed |-> ""]
    /\ refs = [main |-> "c1", master |-> "c2"]
    /\ served \in {"h3", "h4"}
    /\ pc = "idle"
    /\ mode = noUpdate
    /\ oldList = EmptyMap
    /\ chInputs = EmptyMap
    /\ todo = {}
    /\ names = <<>>
    /\ inputURLs = EmptyMap
    /\ locks = EmptyMap
    /\ calls = <<>>
    /\ err = ""
    /\ hist = NoHist
    /\ ctxOpts = NoOpts /\ envUser = "alice" /\ execs = <<>>
    /\ ctxDone = FALSE
    /\ NoFiles

\* Apply's own steps, and the steps of the applyGlobal and applyUser calls
\* it made
NextApply ==
    \/ AGlobal
    \/ apply.phase = "global" /\ GClean
    \/ apply.phase = "global" /\ GResolve
    \/ apply.phase = "global" /\ GLocks
    \/ apply.phase = "global" /\ GTmpAdd
    \/ apply.phase = "global" /\ GTmpUpdate
    \/ apply.phase = "global" /\ GMeasure
    \/ apply.phase = "global" /\ GMerge
    \/ ANextUser
    \/ apply.phase = "users" /\ UList
    \/ apply.phase = "users" /\ UPrune
    \/ apply.phase = "users" /\ UCombine
    \/ apply.phase = "users" /\ UAdd
    \/ apply.phase = "users" /\ UUpdate
    \/ AReturn

SpecApply == InitApply /\ [][NextApply]_vars

---------------------------------------------------------------------------
(* Properties of applyUser *)

AddFailed == pc = "failed" /\ err = "cannot add channel"

\* C1: when applyUser returns the error of a failed add, and the rollback's
\* own calls all succeeded, the live list equals the snapshot oldList
C1_RollbackRestoresOldList ==
    (AddFailed /\ ~hist.rbFailed) => chans = oldList

\* C2: when applyUser returns the 'has no lock' error no remove, add or
\* update has been issued and the live list equals the snapshot
C2_NoLockFailsBeforeMutation ==
    (pc = "failed" /\ err = "channel has no lock")
        => (~IssuedMutation /\ chans = oldList)

\* C3: every error returned after the first mutating call was preceded by
\* the rollback step
C3_ErrorAfterMutationRollsBack ==
    (pc = "failed" /\ IssuedMutation) => hist.rolledBack

---------------------------------------------------------------------------
(* Properties of applyGlobal *)

Running == hist.run >= 1

CallsOf(op) == {i \in 1..Len(calls) : calls[i].op = op}

\* C4: below updateInputs an input with an entry in the existing lock is not
\* passed to URL resolution and its temporary add uses the locked URL
C4_LockedInputsReuseURL ==
    (Running /\ ~FlagIs(mode, updateInputs)) =>
        /\ hist.resolved \cap DOMAIN hist.lockAtStart = {}
        /\ \A n \in DOMAIN chInputs :
              chInputs[n] \in DOMAIN hist.lockAtStart
                  => hist.added[n] = hist.lockAtStart[chInputs[n]].URL

\* the locked inputs whose measured hash differs from the locked one
Differing ==
    {i \in (DOMAIN locks) \cap (DOMAIN hist.lockAtStart) :
        locks[i].StoreHash # hist.lockAtStart[i].StoreHash}

\* C5: in noUpdate mode a locked input whose measured hash differs makes
\* applyGlobal fail, and its entry is not replaced
C5_NoUpdateKeepsChangedEntry ==
    (Running /\ mode = noUpdate) =>
        /\ \A i \in Differing : lock[i] = hist.lockAtStart[i]
        /\ pc = "done" => Differing = {}

\* C6: after a successful applyGlobal every declared input is a key of the
\* lock with a non-empty hash; from an empty lock in updateInputs mode the
\* keys are exactly the declared inputs
C6_EveryDeclaredInputLocked ==
    (Running /\ pc = "done") =>
        /\ \A i \in ChannelInputs(cfg) :
              i \in DOMAIN lock /\ lock[i].StoreHash # ""
        /\ (hist.lockAtStart = EmptyMap /\ mode = updateInputs)
              => DOMAIN lock = ChannelInputs(cfg)

\* C7: every lock resolveChannelLocks produced has the hash parsed from the
\* link of a temporary entry this run added with the lock's URL and fetched;
\* the adds precede the one update, which names all of them and succeeded;
\* a failed add or update produces no lock
C7_LocksAreMeasured ==
    /\ \A i \in DOMAIN locks :
          \E n \in DOMAIN hist.added :
              /\ hist.added[n] = locks[i].URL
              /\ n \in DOMAIN chans /\ chans[n] = locks[i].URL
              /\ n \in DOMAIN defexpr
              /\ ParseStorePath(defexpr[n]).Hash = locks[i].StoreHash
              /\ locks[i].StoreHash = StoreHashOf(locks[i].URL, served)
    /\ locks # EmptyMap =>
          \E u \in CallsOf("update") :
              /\ CallsOf("update") = {u}
              /\ calls[u].ok
              /\ CallNames(calls[u]) = DOMAIN hist.added
              /\ \A a \in CallsOf("add") : a < u /\ calls[a].ok
    /\ (pc = "failed" /\ err \in {"cannot add channel", "cannot update channels"})
          => (locks = EmptyMap /\ lock = hist.lockAtStart)

C7_Witness ==
    /\ pc = "merge"
    /\ Cardinality(DOMAIN locks) = 2
    /\ \E i \in DOMAIN locks : i \in DOMAIN lock /\ lock[i] # locks[i]

\* C8: every add, remove and update of a reconcile names only entries under
\* the temporary prefix, and the live entries stay what they were
C8_ReconcileTouchesOnlyTmp ==
    Running =>
        /\ \A i \in 1..Len(calls) :
              calls[i].op \in Mutating =>
                  /\ CallNames(calls[i]) # {}
                  /\ \A n \in CallNames(calls[i]) : HasPrefix(n, TmpPrefix)
        /\ LiveEntries(chans) = hist.liveAtStart

C8_Witness ==
    /\ pc \in {"done", "failed"}
    /\ hist.liveAtStart # EmptyMap
    /\ CallsOf("removes") # {}
    /\ CallsOf("add") # {}
    /\ CallsOf("update") # {}

---------------------------------------------------------------------------
(* Properties of Exec *)

\* the identity the command of an Exec call runs under
RunsAs(e) ==
    IF Len(e.cmd) >= 3 /\ e.cmd[1] = "sudo" /\ e.cmd[2] = "-u" THEN e.cmd[3]
    ELSE envUser

Differs(e) == e.o.Username # "" /\ e.o.Username # envUser

\* C10: a call whose target user is non-empty, differs from the current user
\* and has no UseSudo runs nothing and returns 'cannot run as user'; with
\* UseSudo it runs sudo -u <username> arg0 argv; with an empty or the
\* current username it runs arg0 argv directly; so a command under another
\* identity is run only with UseSudo
C10_ExecFailsClosed ==
    \A i \in 1..Len(execs) :
        LET e == execs[i]
        IN  /\ (Differs(e) /\ ~e.o.UseSudo)
                  => (e.cmd = <<>> /\ e.err = "cannot run as user")
            /\ (Differs(e) /\ e.o.UseSudo)
                  => e.cmd = <<"sudo", "-u", e.o.Username, e.arg0>> \o e.argv
            /\ ~Differs(e) => e.cmd = <<e.arg0>> \o e.argv
            /\ (e.cmd # <<>> /\ RunsAs(e) # envUser) => e.o.UseSudo

C10_Witness ==
    /\ Len(execs) = 2
    /\ Differs(execs[1]) /\ ~execs[1].o.UseSudo /\ execs[1].cmd = <<>>
    /\ Differs(execs[2]) /\ execs[2].o.UseSudo /\ execs[2].cmd # <<>>

---------------------------------------------------------------------------
(* Properties of cmdRun and writeToFile *)

\* the steps cmdRun was asked to make before saving the lock file
StepsAsked ==
    {"apply"} \cup (IF run.update # "" THEN {"update"} ELSE {})
              \cup (IF run.flakes THEN {"registry"} ELSE {})

Started == pc # "idle"

\* C11: the lock file on disk differs from the one at process start only
\* after the update step, Apply and the registry generation all succeeded;
\* when cmdRun returns an error the lock file is as it was
C11_LockWrittenAfterAllSucceeded ==
    Started =>
        /\ files["lock"] # run.lockAtStart => StepsAsked \subseteq run.okSteps
        /\ (pc = "returned" /\ err # "") => files["lock"] = run.lockAtStart

C11_Witness ==
    /\ pc = "returned"
    /\ err = ""
    /\ run.update = "update"
    /\ run.flakes
    /\ files["lock"] # run.lockAtStart
    /\ files["lock"] = FileOf(lock)

\* C12: at every point of writeToFile, after a failed write or rename and
\* after a crash, the destination holds its complete previous content or
\* the complete new content
C12_DestinationNeverPartial ==
    run.dst # "" =>
        /\ files[run.dst] \in {run.prev, run.new}
        /\ files[run.dst].exists => Complete(files[run.dst])

C12_Witness ==
    /\ pc = "crashed"
    /\ run.dst = "lock"
    /\ files["tmp"].exists /\ ~Complete(files["tmp"])
    /\ files["lock"] = run.prev
    /\ run.prev # run.new

---------------------------------------------------------------------------
(* Properties of applyUser: rollback, override and the commit *)

\* the error applyUser wraps the failure of a call with
ErrOfCall(op) ==
    IF op = "remove" THEN "cannot remove channel for overriding"
    ELSE IF op = "add" THEN "cannot add channel"
    ELSE "cannot update"

\* C13: after a rollback applyUser returns the error of the call that failed,
\* whatever the rollback's own calls did; every remove of an own name and
\* every re-add of an old entry was attempted, and those that succeeded took
\* effect although others failed
C13_RollbackKeepsOriginalError ==
    hist.rolledBack =>
        /\ pc = "failed"
        /\ calls # <<>>
        /\ ~calls[Len(calls)].ok
        /\ err = ErrOfCall(calls[Len(calls)].op)
        /\ hist.rb.att.removes = DOMAIN UserCfg.Channels
        /\ hist.rb.att.adds = DOMAIN oldList
        /\ \A n \in (DOMAIN oldList) \ hist.rb.af :
              n \in DOMAIN chans /\ chans[n] = oldList[n]
        /\ \A n \in (DOMAIN UserCfg.Channels) \ (hist.rb.rf \cup DOMAIN oldList) :
              n \notin DOMAIN chans

C13_Witness ==
    /\ hist.rolledBack
    /\ hist.rb.rf # {}
    /\ hist.rb.af # {}
    /\ hist.rb.af # DOMAIN oldList
    /\ err = "cannot update"

\* the names of the combined declaration of the identity
DeclaredNames ==
    (DOMAIN cfg.Global.Channels) \cup (DOMAIN cfg.Global.Aliases)
        \cup (DOMAIN UserCfg.Channels) \cup (DOMAIN UserCfg.Aliases)

\* C14: with overrideChannels, after applyUser succeeded the live list is
\* exactly the combined declaration, every name at the URL of its lock entry
C14_OverrideOwnsNamespace ==
    (pc = "done" /\ UserCfg.OverrideChannels) =>
        /\ DOMAIN chans = DeclaredNames
        /\ DOMAIN chInputs = DeclaredNames
        /\ \A n \in DOMAIN chans : chans[n] = lock[chInputs[n]].URL

C14_Witness ==
    /\ pc = "done"
    /\ UserCfg.OverrideChannels
    /\ Nx \in DOMAIN oldList
    /\ StaleTmp \in DOMAIN oldList
    /\ Ng \in DOMAIN chans
    /\ Nc \in DOMAIN chans

\* C15: an update without arguments is issued only when the declaration
\* sets overrideChannels; without it the update names what this run added
C15_ArglessUpdateOnlyOnOverride ==
    \A i \in CallsOf("update") :
        /\ calls[i].arg = <<>> => UserCfg.OverrideChannels
        /\ ~UserCfg.OverrideChannels => CallNames(calls[i]) = DOMAIN chInputs

\* C16: the list of a normal gateway holds no entry under the temporary
\* prefix, the list of a temporary gateway holds only such entries
C16_ListFiltersByPrefix ==
    (calls # <<>> /\ calls[1].op = "list" /\ calls[1].ok) =>
        /\ TmpNames(oldList) = {}
        /\ LiveEntries(List(TRUE, oldList)) = EmptyMap

---------------------------------------------------------------------------
(* Properties of CombineChannelRegistries *)

\* the aliases of the combined declaration: a later registry's alias or
\* channel of the same name takes the place of an earlier alias
AliasNames ==
    (DOMAIN UserCfg.Aliases)
        \cup ((DOMAIN cfg.Global.Aliases) \ (DOMAIN UserCfg.Channels))

AliasOf(n) ==
    IF n \in DOMAIN UserCfg.Aliases THEN UserCfg.Aliases[n] ELSE cfg.Global.Aliases[n]

\* every channel and alias name of the registries
AllNames == DeclaredNames

\* the names the aliases of the registries point at
AliasTargets ==
    {cfg.Global.Aliases[n] : n \in DOMAIN cfg.Global.Aliases}
        \cup {UserCfg.Aliases[n] : n \in DOMAIN UserCfg.Aliases}

CombineReturned == chInputs # EmptyMap \/ pc \in {"add", "update", "done"}

CombineFailed == pc = "failed" /\ err = "cannot get channels for user"

\* C17: in the map CombineChannelRegistries returned every alias name has
\* the input the name it aliases has in that map
C17_AliasHasInputOfTarget ==
    CombineReturned =>
        \A n \in AliasNames :
            /\ n \in DOMAIN chInputs
            /\ AliasOf(n) \in DOMAIN chInputs
            /\ chInputs[n] = chInputs[AliasOf(n)]

\* C18: CombineChannelRegistries fails exactly when the target of some alias
\* is no name of the combined registries, and then returns no map
C18_AliasErrorIffTargetMissing ==
    /\ CombineFailed => \E t \in AliasTargets : t \notin AllNames
    /\ CombineFailed => chInputs = EmptyMap
    /\ CombineReturned => \A t \in AliasTargets : t \in AllNames

---------------------------------------------------------------------------
(* Properties of the text form and of LockFile.Eq *)

\* C19: the text of a valid ChannelInput (URL without a space, scheme a key
\* of ChannelResolvers, any version) unmarshals without error to an equal
\* ChannelInput
C19_TextRoundTrip ==
    /\ (fcall.at = "input" /\ Validate(fcall.in.URL))
          => (MarshalText(fcall.in).ok
              /\ UnmarshalText(MarshalText(fcall.in).text).ok
              /\ UnmarshalText(MarshalText(fcall.in).text).in = fcall.in)
    /\ fcall.at = "parsed" => (fcall.out.ok /\ fcall.out.in = fcall.in)

C19_Witness ==
    /\ fcall.at = "parsed"
    /\ Contains(fcall.in.Version, " ")
    /\ Len(fcall.in.URL) = 2
    /\ fcall.out.in = fcall.in

\* same key set and an equal ChannelLock for every key
SameLocks(a, b) == DOMAIN a = DOMAIN b /\ \A k \in DOMAIN a : a[k] = b[k]

\* C20: Eq is true exactly for lock files with the same keys and an equal
\* lock for every key; it is reflexive and symmetric, and false for lock
\* files that differ in one store hash
C20_EqIsEquality ==
    fcall.at = "compared" =>
        /\ fcall.eq <=> SameLocks(fcall.l1, fcall.l2)
        /\ fcall.eq = fcall.rev
        /\ fcall.l1 = fcall.l2 => fcall.eq
        /\ (\E k \in DOMAIN fcall.l1 :
               /\ DOMAIN fcall.l2 = DOMAIN fcall.l1
               /\ fcall.l2[k].StoreHash # fcall.l1[k].StoreHash) => ~fcall.eq

C20_Witness ==
    /\ fcall.at = "compared"
    /\ DOMAIN fcall.l1 = {InA, InC}
    /\ DOMAIN fcall.l2 = {InA, InC}
    /\ fcall.l1[InA] = fcall.l2[InA]
    /\ fcall.l1[InC].URL = fcall.l2[InC].URL
    /\ fcall.l1[InC].StoreHash # fcall.l2[InC].StoreHash
    /\ ~fcall.eq

---------------------------------------------------------------------------
(* Properties of resolveGit and RefCommit *)

\* resolveGit came as far as calling RefCommit
RefCommitCalled == fcall.at = "resolved" /\ fcall.out.rc # NoRefCommit

\* a hex string of 4 to 40 characters
LooksLikeCommit(v) ==
    /\ Len(v) >= 4
    /\ Len(v) <= 40
    /\ \A i \in 1..Len(v) : CharAt(v, i) \in HexDigits

\* the archive URL of a revision for the inputs that name a known host
ArchiveOf(url, rev) ==
    IF url \in {"git://github.com/NixOS/nixpkgs", "github:NixOS/nixpkgs"}
    THEN "https://github.com/NixOS/nixpkgs/archive/" \o rev \o ".tar.gz"
    ELSE "https://gitlab.com/diamondburned/dotfiles/-/archive/" \o rev
         \o "/dotfiles-" \o rev \o ".tar.gz"

KnownHostInputs ==
    {"git://github.com/NixOS/nixpkgs", "github:NixOS/nixpkgs",
     "git://gitlab.com/diamondburned/dotfiles", "gitlab:diamondburned/dotfiles"}

\* C21: a git input on a known host whose version is a revision, abbreviated
\* or of full length, resolves to the host's archive URL of exactly that
\* revision
C21_RevisionResolvesToItsArchive ==
    (/\ fcall.at = "resolved"
     /\ fcall.out.ok
     /\ fcall.in.URL \in KnownHostInputs
     /\ LooksLikeCommit(fcall.in.Version)) =>
        fcall.out.url = ArchiveOf(fcall.in.URL, fcall.in.Version)

\* C22: for a selector that looks like a commit hash RefCommit returns the
\* selector and runs no git ls-remote
C22_CommitHashSkipsQuery ==
    (RefCommitCalled /\ LooksLikeCommit(fcall.in.Version)) =>
        /\ ~fcall.out.rc.queried
        /\ fcall.out.rc.ok
        /\ fcall.out.rc.commit = fcall.in.Version

\* the references of the remote as RefCommit counts them
RemoteRefs == splitLsRemote(fcall.listing)

\* the full name of a selector: a bare name is a branch
FullRef(v) == IF HasPrefix(v, "refs/") THEN v ELSE "refs/heads/" \o v

\* the references a selector matches: those starting with the prefix of a
\* glob, or the one an exact selector names
Matching(v) ==
    IF HasSuffix(v, "*")
    THEN RefsWithPrefix(RemoteRefs, SubSeq(FullRef(v), 1, Len(FullRef(v)) - 1))
    ELSE RefsWithPrefix(RefsWithPrefix(RemoteRefs, FullRef(v)), FullRef(v))

ExactlyNamed(v) ==
    {i \in 1..Len(RemoteRefs) :
        RemoteRefs[i].ref \in {v, "refs/heads/" \o v, "refs/tags/" \o v \o "^{}"}}

\* C23: for a selector that is no commit hash RefCommit returns the commit of
\* the reference an exact selector names, the commit of the last reference
\* under a glob's prefix, and 'ref not found' when no reference matches
C23_RefCommitReturnsMatchingRef ==
    (RefCommitCalled /\ fcall.runOk /\ ~isValidCommitHash(fcall.in.Version)) =>
        IF HasSuffix(fcall.in.Version, "*")
        THEN LET m == Matching(fcall.in.Version)
             IN  IF m = <<>>
                 THEN ~fcall.out.rc.ok /\ fcall.out.rc.err = "ref not found"
                 ELSE fcall.out.rc.ok /\ fcall.out.rc.commit = m[Len(m)].commit
        ELSE IF ExactlyNamed(fcall.in.Version) = {}
             THEN ~fcall.out.rc.ok /\ fcall.out.rc.err = "ref not found"
             ELSE /\ fcall.out.rc.ok
                  /\ \E i \in ExactlyNamed(fcall.in.Version) :
                        fcall.out.rc.commit = RemoteRefs[i].commit

\* the segments of the opaque shorthand of the input
OpaqueParts == StrSplit(UrlParse(fcall.in.URL).Opaque, "/")

\* C24: a shorthand of three segments resolves to the explicit host, one of
\* two segments to the scheme's known host, both with the path /owner/repo;
\* any other number of segments is an 'invalid opaque' error
C24_ShorthandHost ==
    (/\ fcall.at = "resolved"
     /\ UrlParse(fcall.in.URL).Scheme \in DOMAIN GitHosts
     /\ UrlParse(fcall.in.URL).Opaque # "") =>
        LET p == OpaqueParts
            h == GitHosts[UrlParse(fcall.in.URL).Scheme]
        IN  /\ (Len(p) = 3 /\ fcall.out.ok) =>
                   HasPrefix(fcall.out.url,
                             "https://" \o p[1] \o "/" \o p[2] \o "/" \o p[3] \o "/")
            /\ (Len(p) = 2 /\ fcall.out.ok) =>
                   HasPrefix(fcall.out.url,
                             "https://" \o h \o "/" \o p[1] \o "/" \o p[2] \o "/")
            /\ (Len(p) \notin {2, 3}) =>
                   ~fcall.out.ok /\ fcall.out.err = "invalid opaque"

---------------------------------------------------------------------------
(* Properties of ParseStorePathWithRoot *)

\* the path lies strictly inside the root
StrictlyInside(root, path) ==
    /\ HasPrefix(root, "/") = HasPrefix(path, "/")
    /\ Len(PathElems(path)) > Len(PathElems(root))
    /\ SubSeq(PathElems(path), 1, Len(PathElems(root))) = PathElems(root)

\* the first element of the path under the root
FirstUnder(root, path) == PathElems(path)[Len(PathElems(root)) + 1]

\* C25: for root/<hash>-<name>[/extra] with a hash that decodes the result is
\* {root, <name>, <hash>}, cut at the first dash of the first element under
\* the root; every other path, each one not strictly inside the root
\* included, is an error
C25_ParseStorePath ==
    fcall.at = "parsed" =>
        LET r == fcall.root
            p == fcall.path
        IN  IF StrictlyInside(r, p) /\ StrIndex(FirstUnder(r, p), "-") # 0
               /\ Decodes(SubSeq(FirstUnder(r, p), 1,
                                 StrIndex(FirstUnder(r, p), "-") - 1))
            THEN LET seg == FirstUnder(r, p)
                     d   == StrIndex(seg, "-")
                 IN  /\ fcall.out.ok
                     /\ fcall.out.sp = [Root |-> r,
                                        Name |-> SubSeq(seg, d + 1, Len(seg)),
                                        Hash |-> SubSeq(seg, 1, d - 1)]
            ELSE ~fcall.out.ok

\* the path of the test is parsed, and so is a name with a second dash
C25_Witness ==
    /\ fcall.at = "parsed"
    /\ fcall.path = "/nix/store/abc-nixos-23.05/x/y"
    /\ fcall.out.ok
    /\ fcall.out.sp.Name = "nixos-23.05"

---------------------------------------------------------------------------
(* Properties of the registry projection *)

\* the declared global and flakes channels, a flakes channel taking the
\* place of a global one of its name
RegistryChannels == MapMerge(cfg.Global.Channels, cfg.Flakes.Channels)

\* the aliases of the two registries point at declared channels
RegistryCombines ==
    \A comb \in CombineChannelRegistries(<<cfg.Global, cfg.Flakes>>) : comb.ok

\* the declared channels without a lock entry, and those whose located store
\* path has no flake.nix
Lockless == {n \in DOMAIN RegistryChannels : RegistryChannels[n] \notin DOMAIN lock}

Markerless ==
    {n \in DOMAIN RegistryChannels :
        /\ RegistryChannels[n] \in DOMAIN lock
        /\ fcall.store[lock[RegistryChannels[n]].StoreHash] = "plain"}

\* the channel an error names, through its own name or an alias of it
NamedChannel ==
    IF fcall.out.channel \in DOMAIN RegistryChannels THEN fcall.out.channel
    ELSE cfg.Flakes.Aliases[fcall.out.channel]

\* C26: with a declared channel without lock entry, or one whose store path
\* lacks flake.nix, the projection fails with an error naming such a channel,
\* returns no document, and saveNixRegistryFile writes no file
C26_RegistryFailsClosed ==
    (/\ fcall.at = "returned"
     /\ RegistryCombines
     /\ Lockless \cup Markerless # {}) =>
        /\ ~fcall.out.ok
        /\ fcall.err = "cannot generate flakes registry"
        /\ fcall.out.doc = NoRegistryDoc
        /\ files["registry"] = Absent /\ files["tmp"] = Absent
        /\ fcall.out.err \in {"has no lock", "has no flake.nix file",
                              "cannot find store hash"}
        /\ fcall.out.err = "has no lock" => NamedChannel \in Lockless
        /\ fcall.out.err = "has no flake.nix file" => NamedChannel \in Markerless
        /\ (Markerless = {} /\ \A h \in DOMAIN fcall.store : fcall.store[h] = "flake")
               => fcall.out.err = "has no lock"

\* both failures at once: one channel has no lock and another no marker, and
\* the error names the one without marker
C26_Witness ==
    /\ fcall.at = "returned"
    /\ Lockless # {}
    /\ Markerless # {}
    /\ fcall.out.err = "has no flake.nix file"
    /\ files["registry"] = Absent

---------------------------------------------------------------------------
(* Properties of ParseChannelInput *)

\* the URL part of an input string: what stands before its first space
UrlPart(t) == SplitN2(t)[1]

\* C27: ParseChannelInput returns a non-nil error when the URL part of the
\* string is invalid, and the parsed input with a nil error otherwise
C27_InvalidInputIsReported ==
    fcall.at = "parsed" =>
        IF Validate(UrlPart(fcall.text))
        THEN ~fcall.out.err /\ fcall.out.in = UnmarshalText(fcall.text).in
        ELSE fcall.out.err

---------------------------------------------------------------------------
(* Properties of resolveInputs and its place in applyGlobal *)

\* resolveInputs is being, or has been, run
Resolving == "gor" \in DOMAIN fcall

\* C28: one goroutine per input; a goroutine is inside the map write only
\* while it holds the mutex, so at most one is; and once resolveInputs has
\* returned every goroutine has returned and none began a write after it
C28_WritesUnderMutex ==
    Resolving =>
        /\ DOMAIN fcall.gor = fcall.given
        /\ fcall.writing \subseteq fcall.mu
        /\ Cardinality(fcall.writing) <= 1
        /\ fcall.ret.returned =>
               /\ fcall.writing = {}
               /\ ~fcall.late
               /\ \A i \in fcall.given : fcall.gor[i] \in {"done", "failed"}

\* a write while another goroutine waits for the mutex, in a run where a
\* third resolution has failed
C28_Witness ==
    /\ Resolving
    /\ fcall.writing # {}
    /\ \E i \in fcall.given : fcall.gor[i] = "resolved"
    /\ \E i \in fcall.given : fcall.gor[i] = "failed"

\* C29: when every resolution succeeded the returned map has exactly the
\* given inputs as keys, each with its own resolved URL; when one failed an
\* error and no map are returned and no temporary add or update is begun
C29_AllOrNothing ==
    (Resolving /\ fcall.ret.returned) =>
        IF \A i \in fcall.given : fcall.gor[i] = "done"
        THEN /\ fcall.ret.ok
             /\ DOMAIN fcall.ret.urls = fcall.given
             /\ \A i \in fcall.given : fcall.ret.urls[i] = Resolve(i, refs)
        ELSE /\ ~fcall.ret.ok
             /\ fcall.ret.nil
             /\ fcall.ret.urls = EmptyMap
             /\ fcall.issued = <<"cleanup">>
             /\ fcall.at \in {"returned", "failed"}

\* one resolution failed after another had written its URL, and applyGlobal
\* has returned the error
C29_Witness ==
    /\ Resolving
    /\ fcall.at = "failed"
    /\ fcall.ret.returned
    /\ fcall.urls # EmptyMap
    /\ \E i \in fcall.given : fcall.gor[i] = "failed"

\* C30: at most one nix-channel invocation is in flight; a remote lookup is
\* in flight only after the cleanup has returned and before the first
\* temporary add is begun, with no nix-channel invocation beside it
C30_ToolCallsAreSequential ==
    Resolving =>
        /\ Cardinality(fcall.tool) <= 1
        /\ fcall.git # {} =>
               /\ fcall.tool = {}
               /\ fcall.issued = <<"cleanup">>
               /\ fcall.at = "spawn"

\* two lookups in flight at once while the range loop still spawns
C30_Witness ==
    /\ Resolving
    /\ Cardinality(fcall.git) = 2
    /\ fcall.todo # {}
    /\ fcall.issued = <<"cleanup">>

---------------------------------------------------------------------------
(* Properties of a failing applyGlobal *)

\* C32: whenever applyGlobal returns an error, s.Lock.Channels holds exactly
\* the entries it held before the call, whichever step failed
C32_FailedReconcileKeepsLock ==
    (Running /\ pc = "failed") => lock = hist.lockAtStart

---------------------------------------------------------------------------
(* Properties of the advisory file lock *)

\* the invocation is inside cmdRun
InAction(p) == fcall.proc[p].at \in {"read", "apply"}

\* C34: two invocations are never both inside the update/apply action; an
\* invocation that could not acquire the file lock neither reads the state
\* nor calls the channel tool; the lock is held until the action has finished
C34_FileLockExcludes ==
    fcall.at = "flock" =>
        /\ \A p, q \in Procs : (InAction(p) /\ InAction(q)) => p = q
        /\ \A p \in Procs :
              fcall.proc[p].lockErr # "" =>
                  (~fcall.proc[p].readState /\ fcall.proc[p].tool = 0)
        /\ \A p \in Procs :
              (fcall.proc[p].lockErr = "" /\ InAction(p)) => p \in fcall.held

---------------------------------------------------------------------------
(* Properties of CombineChannelRegistries over the iteration orders *)

\* C37: for one list of registries CombineChannelRegistries returns the same
\* map, or the error, in every order in which the Channels and Aliases maps
\* are iterated
C37_CombineIsDeterministic ==
    fcall.at = "combined" =>
        \A x \in CombineChannelRegistries(fcall.regs) : x = fcall.out

---------------------------------------------------------------------------
(* Properties of FilterChannels *)

\* the registries of a Config, by where they are declared
RegistriesOf(c) ==
    [k \in {"global", "flakes"} \cup DOMAIN c.Users |->
        IF k = "global" THEN c.Global
        ELSE IF k = "flakes" THEN c.Flakes
        ELSE c.Users[k]]

\* the registry res holds only channels and aliases of orig selected by nms
FilteredFrom(res, orig, nms) ==
    LET given == {nms[k] : k \in 1..Len(nms)}
    IN  /\ \A n \in DOMAIN res.Channels :
              /\ n \in DOMAIN orig.Channels
              /\ res.Channels[n] = orig.Channels[n]
              /\ n \in given \/ n \in Range(res.Aliases)
        /\ \A n \in DOMAIN res.Aliases :
              /\ n \in DOMAIN orig.Aliases
              /\ res.Aliases[n] = orig.Aliases[n]
              /\ n \in given

\* C35: every registry FilterChannels returns holds only channels of the
\* original, under the same name with the same input and named in names or
\* the target of a kept alias, and only aliases of the original named in
\* names; the original Config is unchanged
C35_FilterKeepsOnlyOriginals ==
    fcall.at = "filtered" =>
        /\ fcall.cfg = fcall.given
        /\ \A k \in DOMAIN RegistriesOf(fcall.out) :
              FilteredFrom(RegistriesOf(fcall.out)[k], RegistriesOf(fcall.given)[k],
                           fcall.nms)

---------------------------------------------------------------------------
(* Properties of the lock over successive reconciliations *)

\* C38: no step of applyGlobal, in any mode and in any number of successive
\* calls, removes a key of s.Lock.Channels, and the entry of an input the
\* configuration in use does not declare stays what it was
C38_LockKeysPersist ==
    [][/\ DOMAIN lock \subseteq DOMAIN lock'
       /\ \A i \in (DOMAIN lock) \ ChannelInputs(cfg) : lock'[i] = lock[i]]_vars

\* a second call has succeeded and written an entry, with an undeclared
\* input in the lock
C38_Witness ==
    /\ pc = "done"
    /\ hist.run = MaxRuns
    /\ lock # hist.lockAtStart
    /\ (DOMAIN lock) \ ChannelInputs(cfg) # {}

---------------------------------------------------------------------------
(* Properties of a successful applyUser that does not override *)

\* C36: with OverrideChannels false, after applyUser returned nil every
\* entry of the list it took whose name the combined declaration lacks is
\* still there with its URL, and every name of the combined declaration is
\* there with the URL of the lock of its input
C36_NoOverrideKeepsUndeclared ==
    (pc = "done" /\ ~UserCfg.OverrideChannels) =>
        /\ \A n \in (DOMAIN oldList) \ DOMAIN chInputs :
              n \in DOMAIN chans /\ chans[n] = oldList[n]
        /\ \A n \in DOMAIN chInputs :
              /\ n \in DOMAIN chans
              /\ chInputs[n] \in DOMAIN lock
              /\ chans[n] = lock[chInputs[n]].URL

C36_Witness ==
    /\ pc = "done"
    /\ ~UserCfg.OverrideChannels
    /\ (DOMAIN oldList) \ DOMAIN chInputs # {}
    /\ (DOMAIN oldList) \cap DOMAIN chInputs # {}
    /\ Cardinality(DOMAIN chInputs) > 1

---------------------------------------------------------------------------
(* Properties of applyUser under cancellation *)

\* the context was cancelled after an add of this run had completed, and
\* applyUser returned the error of the tool call that failed next
CancelledAfterAdd ==
    /\ ctxDone
    /\ names # <<>>
    /\ pc = "failed"
    /\ err \in {"cannot add channel", "cannot update"}

\* C31: when the context is cancelled during applyUser after an add has
\* completed, the next step fails and, when applyUser returns its error,
\* the rollback has undone the completed steps: the live list is oldList
C31_CancelRollsBack ==
    CancelledAfterAdd => (hist.rolledBack /\ chans = oldList)

---------------------------------------------------------------------------
(* Properties of State.Apply *)

\* the calls issued so far name only entries under the temporary prefix
OnlyTmpCalls ==
    \A i \in 1..Len(calls) :
        calls[i].op \in Mutating =>
            /\ CallNames(calls[i]) # {}
            /\ \A n \in CallNames(calls[i]) : HasPrefix(n, TmpPrefix)

\* the live entries of every identity are those Apply started from
LiveUntouched ==
    \A u \in DOMAIN Namespaces :
        LiveEntries(Namespaces[u].chans) = LiveEntries(apply.atStart[u])

\* Apply is in its reconcile phase, or has returned applyGlobal's error
Reconciling ==
    \/ apply.phase = "global"
    \/ apply.phase = "returned" /\ apply.globalErr # ""

\* C33: in Apply no add, remove or update is issued against a live
\* namespace unless applyGlobal has returned nil before: while applyGlobal
\* runs and after it failed every call names temporary entries, no rollback
\* has run and every live namespace is untouched, and applyUser is only
\* reached after applyGlobal returned nil
C33_UsersOnlyAfterReconcile ==
    /\ Reconciling => (OnlyTmpCalls /\ LiveUntouched /\ ~hist.rolledBack)
    /\ apply.phase = "users" => apply.globalErr = ""

\* applyGlobal failed after it had added temporary entries and Apply returned
C33_Witness ==
    /\ apply.phase = "returned"
    /\ apply.globalErr = "channel has a different store hash"
    /\ \E i \in 1..Len(calls) : calls[i].op = "add" /\ calls[i].ok
    /\ apply.pending = DOMAIN cfg.Users

\* applyUser has failed for a user of Apply's loop
UserFailed ==
    \/ apply.phase = "users" /\ pc = "failed"
    \/ apply.failed # ""

\* C39: when applyUser fails for a user, the users applied before it in the
\* same call keep the list their applyUser left, the users not reached yet
\* have the namespace they had when the loop began, and Apply returns
\* without calling applyUser again
C39_RollbackIsPerUser ==
    UserFailed =>
        /\ \A u \in DOMAIN apply.applied : Namespaces[u].chans = apply.applied[u]
        /\ \A u \in apply.pending : Namespaces[u] = apply.atLoop[u]
        /\ apply.failed # "" => (apply.phase = "returned" /\ user = apply.failed)

\* one user applied and changed, the next one failed and rolled back, the
\* third not reached
C39_Witness ==
    /\ apply.phase = "returned"
    /\ apply.failed # ""
    /\ hist.rolledBack
    /\ \E u \in DOMAIN apply.applied : apply.applied[u] # apply.atStart[u]
    /\ apply.pending # {}

===========================================================================
